---- MODULE Spec2Model ----
(***************************************************************************)
(* ChatterLite: the Express friend-request endpoints over the in-memory    *)
(* store (server/routes.ts, server/storage.ts) and the client's chat-list  *)
(* synchronizer (client/src/hooks/useChats.tsx) over the hosted tables of  *)
(* supabase-schema.sql.                                                    *)
(***************************************************************************)
EXTENDS Integers, Sequences, FiniteSets, TLC

VARIABLES
  friendRequests,  \* MemStorage.friendRequests: row id -> row, ids 1..Len
  chats,           \* table chats, in insertion order
  chat_members,    \* table chat_members, in insertion order
  handler,         \* the PATCH /api/friend-requests/:requestId calls in flight
  postRes,         \* the response of the latest POST /api/friend-requests
  storageUsers,    \* MemStorage.users: id -> user
  syncRes,         \* the response of the latest POST /api/users/sync
  users,           \* table users: id -> row
  messages,        \* table messages, a set of rows
  now,             \* the database clock, NOW()
  fetch,           \* useChats: the fetchChats call in progress
  chatList,        \* useChats: the React state `chats`
  loading,         \* useChats: the React state `loading`
  message_reactions, \* table message_reactions, a set of rows
  objects,         \* storage bucket chat-files: the paths taken
  chatId,          \* useMessages: the selected chat, the hook's argument
  messageList,     \* useMessages: the React state `messages`
  messagesLoading, \* useMessages: the React state `loading`
  fetching,        \* useMessages: fetchMessages calls in flight, per chat
  notifications,   \* change notifications not yet delivered, per channel
  call,            \* the calls of sendMessage, reactToMessage, uploadFile
                   \* (useMessages), createChat (useChats) and create_dm_chat
  channels,        \* useMessages: the realtime channels its effect has made
  subscriptionRef, \* useMessages: subscriptionRef.current, 0 for null
  mounted,         \* useMessages: the component that uses the hook is mounted
  reactions,       \* groupReactions: its argument
  groups           \* groupReactions: its result

syncVars == <<storageUsers, syncRes>>
serverVars == <<friendRequests, handler, postRes, syncVars>>
tableVars == <<users, chats, chat_members, messages, now>>
clientVars == <<fetch, chatList, loading>>
groupVars == <<reactions, groups>>
hookVars == <<channels, subscriptionRef, mounted>>
streamVars == <<message_reactions, objects, chatId, messageList,
                messagesLoading, fetching, notifications, call, groupVars, hookVars>>
vars == <<friendRequests, chats, chat_members, handler, postRes,
          users, messages, now, fetch, chatList, loading, streamVars,
          syncVars>>

----------------------------------------------------------------------------
(* Bounds of the model *)

MaxRequests == 2   \* friend-request rows the store may hold
MaxChats == 2      \* rows of table chats
MaxTime == 2       \* the latest created_at, in ticks
MaxMessages == 2   \* rows of table messages
TicksPerMs == 2    \* timestamp ticks in one millisecond of a JavaScript Date
MaxTextLen == 2    \* characters of a typed text
MaxChannels == 3   \* channels the effect of useMessages makes
MaxReactions == 2  \* rows of table message_reactions before the first call
MaxRows == 3       \* rows of an argument of groupReactions
MaxUsers == 2      \* users that storage.createUser has made

----------------------------------------------------------------------------
(* Values *)

Undefined == "undefined"      \* undefined or null: a field the body lacks
Users == {"u1", "u2"}
Handlers == {"h1", "h2"}      \* the PATCH calls of a run, served concurrently

IdInputs == Users \cup {Undefined}
StatusInputs == {Undefined, "pending", "accepted", "rejected"}
BodyStatusInputs == {Undefined, "accepted"}   \* a status sent along with a POST
RequestIds == 1..(MaxRequests + 1)

\* JavaScript truthiness of a field: !v is true for undefined, null and "".
Truthy(v) == v \notin {Undefined, ""}

NoRow == [id |-> 0, senderId |-> Undefined, receiverId |-> Undefined,
          status |-> Undefined]
NoChat == [id |-> 0, name |-> Undefined, is_group |-> FALSE,
           avatar_url |-> Undefined,
           created_by |-> Undefined, created_at |-> 0]

Response(code, body) == [code |-> code, body |-> body]
NoResponse == Response(0, NoRow)

----------------------------------------------------------------------------
(* server/storage.ts: MemStorage *)

\* randomUUID(): an id no stored row has.
randomUUID == Len(friendRequests) + 1

createFriendRequest(insertFriendRequest) ==
  [id |-> randomUUID,
   senderId |-> insertFriendRequest.senderId,
   receiverId |-> insertFriendRequest.receiverId,
   status |-> "pending"]

\* The row the store returns for requestId once its status is set, or NoRow
\* (undefined) when the id is unknown.
updateFriendRequestStatus(requestId, status) ==
  IF requestId \in DOMAIN friendRequests
    THEN [friendRequests[requestId] EXCEPT !.status = status]
    ELSE NoRow

setFriendRequest(row) ==
  IF row.id \in DOMAIN friendRequests
    THEN [friendRequests EXCEPT ![row.id] = row]
    ELSE friendRequests

\* No user: undefined.
NoUser == [id |-> Undefined, email |-> Undefined, fullName |-> Undefined,
           avatarUrl |-> Undefined, isOnline |-> FALSE]

\* The ids randomUUID() gives to the users of createUser, in turn.
GeneratedIds == [n \in 1..(MaxUsers + 1) |-> "g" \o ToString(n)]

\* createUser(insertUser): a user under a fresh id; the email is not looked
\* up.
CreateUser(email, fullName, avatarUrl) ==
  /\ \E n \in 1..MaxUsers :
       /\ GeneratedIds[n] \notin DOMAIN storageUsers
       /\ \A m \in 1..(n - 1) : GeneratedIds[m] \in DOMAIN storageUsers
       /\ storageUsers' =
            (GeneratedIds[n] :>
               [id |-> GeneratedIds[n], email |-> email, fullName |-> fullName,
                avatarUrl |-> avatarUrl, isOnline |-> FALSE]) @@ storageUsers
  /\ UNCHANGED <<syncRes, friendRequests, handler, postRes>>
  /\ UNCHANGED <<tableVars, clientVars, streamVars>>

\* createUserWithId(userData): this.users.set(userData.id, user).
createUserWithId(userData) ==
  [id |-> userData.id, email |-> userData.email,
   fullName |-> userData.fullName, avatarUrl |-> userData.avatarUrl,
   isOnline |-> FALSE]

----------------------------------------------------------------------------
(* server/routes.ts: POST /api/users/sync *)

\* The check that never finds the user.
UserFound_Never(id) == FALSE

\* user = await storage.getUserById(id) is defined.
UserFound(id) == id \in DOMAIN storageUsers

\* !id || !email || !fullName
MissingFields(id, email, fullName) ==
  ~Truthy(id) \/ ~Truthy(email) \/ ~Truthy(fullName)

\* The handler has no await on anything but the in-memory store, so it runs
\* as one step.
SyncUser(id, email, fullName, avatarUrl) ==
  /\ IF MissingFields(id, email, fullName)
       THEN /\ syncRes' = Response(400, NoUser)
            /\ UNCHANGED storageUsers
       ELSE IF UserFound(id)
         THEN /\ syncRes' = Response(200, storageUsers[id])
              /\ UNCHANGED storageUsers
       ELSE LET user == createUserWithId(
                          [id |-> id, email |-> email, fullName |-> fullName,
                           avatarUrl |-> IF Truthy(avatarUrl) THEN avatarUrl
                                         ELSE Undefined])
            IN /\ storageUsers' = (id :> user) @@ storageUsers
               /\ syncRes' = Response(200, user)
  /\ UNCHANGED <<friendRequests, handler, postRes>>
  /\ UNCHANGED <<tableVars, clientVars, streamVars>>

----------------------------------------------------------------------------
(* server/routes.ts: POST /api/friend-requests *)

\* The check with the receiver forgotten.
MissingIds_SenderOnly(senderId, receiverId) == ~Truthy(senderId)

MissingIds(senderId, receiverId) == ~Truthy(senderId) \/ ~Truthy(receiverId)

PostFriendRequest(senderId, receiverId, status) ==
  /\ IF MissingIds(senderId, receiverId)
       THEN /\ postRes' = Response(400, NoRow)
            /\ UNCHANGED friendRequests
       ELSE /\ Len(friendRequests) < MaxRequests
            /\ LET friendRequest == createFriendRequest(
                     [senderId |-> senderId, receiverId |-> receiverId,
                      status |-> "pending"])
               IN /\ friendRequests' = Append(friendRequests, friendRequest)
                  /\ postRes' = Response(200, friendRequest)
  /\ UNCHANGED <<chats, chat_members, handler>>
  /\ UNCHANGED <<users, messages, now, clientVars, streamVars, syncVars>>

----------------------------------------------------------------------------
(* server/routes.ts: PATCH /api/friend-requests/:requestId *)

\* The check without the membership test: any non-empty status passes.
ValidStatus_AnyTruthy(status) == Truthy(status)

ValidStatus(status) == Truthy(status) /\ status \in {"accepted", "rejected"}

\* The handler without its 404 return.
NotFound_Never(updatedRequest) == FALSE

NotFound(updatedRequest) == updatedRequest = NoRow

CreatesChat(status, updatedRequest) ==
  /\ status = "accepted"
  /\ Truthy(updatedRequest.senderId)
  /\ Truthy(updatedRequest.receiverId)

\* The chat created on behalf of the receiver instead of the sender.
NewChat_ByReceiver(updatedRequest) ==
  [id |-> Len(chats) + 1, name |-> Undefined, is_group |-> FALSE,
   avatar_url |-> Undefined, created_by |-> updatedRequest.receiverId, created_at |-> now]

\* An idempotency guard: the direct chat the sender already created is reused.
NewChat_Reused(updatedRequest) ==
  IF \E i \in DOMAIN chats : chats[i].created_by = updatedRequest.senderId
    THEN chats[CHOOSE i \in DOMAIN chats :
                 chats[i].created_by = updatedRequest.senderId]
    ELSE [id |-> Len(chats) + 1, name |-> Undefined, is_group |-> FALSE,
          avatar_url |-> Undefined, created_by |-> updatedRequest.senderId, created_at |-> now]

NewChat(updatedRequest) ==
  [id |-> Len(chats) + 1, name |-> Undefined, is_group |-> FALSE,
   avatar_url |-> Undefined, created_by |-> updatedRequest.senderId, created_at |-> now]

NewMembers(chatData, updatedRequest) ==
  << [chat_id |-> chatData.id, user_id |-> updatedRequest.senderId],
     [chat_id |-> chatData.id, user_id |-> updatedRequest.receiverId] >>

\* UNIQUE(chat_id, user_id) of table chat_members.
MembersUnique(rows) ==
  \A i, j \in DOMAIN rows : rows[i] = rows[j] => i = j

\* res.json(updatedRequest) once the side effect has run to its end.
SideEffectDone(updatedRequest) == Response(200, updatedRequest)

\* The error rethrown to the outer catch instead of being logged.
SideEffectFailed_Rethrown(updatedRequest) == Response(500, NoRow)

\* A chat or membership error is logged only; the handler falls through to
\* res.json(updatedRequest).
SideEffectFailed(updatedRequest) == Response(200, updatedRequest)

Idle(h) == handler[h].pc = "idle"

Finish(h, res) ==
  [handler EXCEPT ![h].pc = "done", ![h].res = res]

\* The handler from the request up to its first network call: validation, the
\* store update, the 404 check, and the decision to create a chat.
PatchReceive(h, requestId, status) ==
  /\ Idle(h)
  /\ LET start == [pc |-> "idle", requestId |-> requestId, status |-> status,
                   updatedRequest |-> NoRow, chatData |-> NoChat,
                   chatOk |-> FALSE, membersOk |-> FALSE, res |-> NoResponse]
         updatedRequest == updateFriendRequestStatus(requestId, status)
     IN IF ~ValidStatus(status)
          THEN /\ handler' = [handler EXCEPT ![h] =
                     [start EXCEPT !.pc = "done", !.res = Response(400, NoRow)]]
               /\ UNCHANGED friendRequests
          ELSE /\ friendRequests' = setFriendRequest(updatedRequest)
               /\ handler' = [handler EXCEPT ![h] =
                    IF NotFound(updatedRequest)
                      THEN [start EXCEPT !.pc = "done",
                                         !.res = Response(404, NoRow)]
                    ELSE IF updatedRequest = NoRow
                      \* undefined past the 404 check: reading its senderId
                      \* throws into the outer catch, else res.json(undefined)
                      THEN [start EXCEPT !.pc = "done",
                                         !.res = IF status = "accepted"
                                                   THEN Response(500, NoRow)
                                                   ELSE Response(200, NoRow)]
                    ELSE IF CreatesChat(status, updatedRequest)
                      THEN [start EXCEPT !.pc = "chatInsert",
                                         !.updatedRequest = updatedRequest]
                    ELSE [start EXCEPT !.pc = "done",
                                       !.updatedRequest = updatedRequest,
                                       !.res = Response(200, updatedRequest)]]
  /\ UNCHANGED <<chats, chat_members, postRes>>
  /\ UNCHANGED <<users, messages, now, clientVars, streamVars, syncVars>>

\* supabase.from('chats').insert(...).select().single() answers.
ChatInsert(h, ok) ==
  /\ handler[h].pc = "chatInsert"
  /\ IF ok
       THEN /\ Len(chats) < MaxChats
            /\ LET chatData == NewChat(handler[h].updatedRequest)
               IN /\ chats' = Append(chats, chatData)
                  /\ handler' = [handler EXCEPT ![h].pc = "membersInsert",
                                                ![h].chatData = chatData,
                                                ![h].chatOk = TRUE]
       ELSE /\ handler' = Finish(h, SideEffectFailed(handler[h].updatedRequest))
            /\ UNCHANGED chats
  /\ UNCHANGED <<friendRequests, chat_members, postRes>>
  /\ UNCHANGED <<users, messages, now, clientVars, streamVars, syncVars>>

\* supabase.from('chat_members').insert(members) answers.
MembersInsert(h, ok) ==
  /\ handler[h].pc = "membersInsert"
  /\ LET members == NewMembers(handler[h].chatData, handler[h].updatedRequest)
     IN IF ok /\ MembersUnique(chat_members \o members)
          THEN /\ chat_members' = chat_members \o members
               /\ handler' = [Finish(h, SideEffectDone(handler[h].updatedRequest))
                                EXCEPT ![h].membersOk = TRUE]
          ELSE /\ handler' = Finish(h, SideEffectFailed(handler[h].updatedRequest))
               /\ UNCHANGED chat_members
  /\ UNCHANGED <<friendRequests, chats, postRes>>
  /\ UNCHANGED <<users, messages, now, clientVars, streamVars, syncVars>>

----------------------------------------------------------------------------

(* client/src/hooks/useChats.tsx: fetchChats *)

CurrentUser == "u1"           \* user.id of the signed-in user
Times == 0..MaxTime
ChatIds == 1..2               \* the chats of the chat-list specification
Names == {Undefined, "Team"}  \* chats.name: null or a given name
NoMessage == [chat_id |-> 0, content |-> Undefined, created_at |-> 0]

\* new Date(timestamp).getTime(): the timestamp cut to whole milliseconds.
getTime(created_at) == created_at \div TicksPerMs

\* chat_members joined with chats!inner, filtered by user_id: the chat rows of
\* the user's memberships, in table order.
MembershipChats(user_id) ==
  LET mine == SelectSeq(chat_members,
                LAMBDA m : m.user_id = user_id /\ m.chat_id \in DOMAIN chats)
  IN [i \in DOMAIN mine |-> chats[mine[i].chat_id]]

\* The orders in which a query without ORDER BY may return the rows.
Orderings(rows) ==
  {[i \in DOMAIN rows |-> rows[p[i]]] :
     p \in {q \in [DOMAIN rows -> DOMAIN rows] :
              \A i, j \in DOMAIN rows : q[i] = q[j] => i = j}}

\* The first row per chat of the messages ordered by created_at descending:
\* a message of the chat that no other message of the chat is later than.
IsLatest(msg, chat_id) ==
  /\ msg \in messages
  /\ msg.chat_id = chat_id
  /\ \A other \in messages :
       other.chat_id = chat_id => other.created_at <= msg.created_at

\* The maps the forEach over messagesData can build for chatIds.
LatestMessages(chatIds) ==
  {lm \in [chatIds -> messages \cup {NoMessage}] :
     \A c \in chatIds :
       IF \E msg \in messages : msg.chat_id = c
         THEN IsLatest(lm[c], c)
         ELSE lm[c] = NoMessage}

NeedsLookup(chat) == ~chat.is_group /\ ~Truthy(chat.name)

\* chat_members of the chat, .neq('user_id', user.id), joined with users!inner.
OtherMembers(chat_id, user_id) ==
  {m.user_id : m \in {chat_members[i] : i \in DOMAIN chat_members}}
    \cap {u \in DOMAIN users :
            /\ u # user_id
            /\ \E i \in DOMAIN chat_members :
                 chat_members[i] = [chat_id |-> chat_id, user_id |-> u]}

\* What the lookup of one chat may give: "<none>" when no query is made or it
\* returns no row, "<error>" when it fails (data is null), else the user of
\* the one row that .limit(1) returns.
LookupResults(chat) ==
  IF ~NeedsLookup(chat) THEN {"<none>"}
  ELSE {"<error>"}
         \cup (IF OtherMembers(chat.id, CurrentUser) = {}
                 THEN {"<none>"}
                 ELSE OtherMembers(chat.id, CurrentUser))

ResolvedName(chat, other) ==
  IF NeedsLookup(chat) /\ other \in DOMAIN users
    THEN (IF Truthy(users[other].full_name)
            THEN users[other].full_name ELSE "Unknown User")
    ELSE chat.name

ResolvedAvatar(chat, other) ==
  IF NeedsLookup(chat) /\ other \in DOMAIN users /\ ~Truthy(chat.avatar_url)
    THEN users[other].avatar_url
    ELSE chat.avatar_url

\* One element of formattedChats.
FormatChat(chat, lastMessage, other) ==
  LET chatName == ResolvedName(chat, other)
  IN [id |-> chat.id,
      name |-> IF Truthy(chatName) THEN chatName ELSE "Unknown Chat",
      isGroup |-> chat.is_group,
      avatarUrl |-> ResolvedAvatar(chat, other),
      lastMessage |-> IF lastMessage # NoMessage /\ Truthy(lastMessage.content)
                        THEN lastMessage.content ELSE Undefined,
      lastMessageTime |-> IF lastMessage # NoMessage
                            THEN lastMessage.created_at ELSE chat.created_at,
      unreadCount |-> 0,
      isOnline |-> ~chat.is_group]

\* The comparator with its operands swapped: ascending order.
compare_Ascending(a, b) == getTime(a.lastMessageTime) - getTime(b.lastMessageTime)

\* The comparator of formattedChats.sort: negative when a goes first.
compare(a, b) == getTime(b.lastMessageTime) - getTime(a.lastMessageTime)

\* Array.prototype.sort, which is stable: x goes before the first element that
\* the comparator puts after it.
RECURSIVE InsertSorted(_, _)
InsertSorted(sorted, x) ==
  IF sorted = << >> THEN <<x>>
  ELSE IF compare(Head(sorted), x) > 0 THEN <<x>> \o sorted
  ELSE <<Head(sorted)>> \o InsertSorted(Tail(sorted), x)

RECURSIVE sort(_)
sort(array) ==
  IF array = << >> THEN << >>
  ELSE InsertSorted(sort(SubSeq(array, 1, Len(array) - 1)), array[Len(array)])

\* The fetchChats calls that may be in flight together: nothing in the hook
\* waits for a call to end before the next one starts.
Refreshes == {"r1", "r2"}

\* No fetchChats call in progress.
FetchInit == [pc |-> "idle", chatMembersData |-> << >>, latestMessages |-> << >>]

\* fetchChats() is called: on mount, by a change notification, or as
\* refreshChats.
FetchChats(r) ==
  /\ fetch[r].pc \in {"idle", "done", "failed"}
  /\ fetch' = [fetch EXCEPT ![r] = [FetchInit EXCEPT !.pc = "members"]]
  /\ UNCHANGED <<chatList, loading, serverVars, tableVars, streamVars>>

\* The membership query answers: an error is thrown to the catch, no
\* membership gives setChats([]), else the messages query is sent.
MembersQuery(r, ok) ==
  /\ fetch[r].pc = "members"
  /\ IF ~ok
       THEN /\ fetch' = [fetch EXCEPT ![r].pc = "failed"]
            /\ UNCHANGED chatList
       ELSE \E chatMembersData \in Orderings(MembershipChats(CurrentUser)) :
              IF chatMembersData = << >>
                THEN /\ chatList' = << >>
                     /\ fetch' = [fetch EXCEPT ![r].pc = "done"]
                ELSE /\ fetch' = [fetch EXCEPT
                                    ![r].pc = "messages",
                                    ![r].chatMembersData = chatMembersData]
                     /\ UNCHANGED chatList
  /\ loading' = IF fetch'[r].pc \in {"done", "failed"} THEN FALSE ELSE loading
  /\ UNCHANGED <<serverVars, tableVars, streamVars>>

\* The messages query answers: an error is thrown to the catch, else the map
\* of latest messages is built and the lookups of Promise.all are sent.
MessagesQuery(r, ok) ==
  /\ fetch[r].pc = "messages"
  /\ IF ~ok
       THEN /\ fetch' = [fetch EXCEPT ![r].pc = "failed"]
            /\ loading' = FALSE
       ELSE /\ \E lm \in LatestMessages(
                   {fetch[r].chatMembersData[i].id :
                      i \in DOMAIN fetch[r].chatMembersData}) :
                 fetch' = [fetch EXCEPT ![r].pc = "format",
                                        ![r].latestMessages = lm]
            /\ UNCHANGED loading
  /\ UNCHANGED <<chatList, serverVars, tableVars, streamVars>>

\* formattedChats, sorted, for the lookup results `other` (one per chat).
SortedChats(chatMembersData, latestMessages, other) ==
  sort([i \in DOMAIN chatMembersData |->
          FormatChat(chatMembersData[i],
                     latestMessages[chatMembersData[i].id],
                     other[i])])

\* The results the lookups of Promise.all may give for the chats.
Lookups(chatMembersData) ==
  {other \in [DOMAIN chatMembersData -> DOMAIN users \cup {"<none>", "<error>"}] :
     \A i \in DOMAIN other : other[i] \in LookupResults(chatMembersData[i])}

\* Every lookup of Promise.all has answered: the summaries are formatted,
\* sorted and stored with setChats.
FormatChats(r) ==
  /\ fetch[r].pc = "format"
  /\ \E other \in Lookups(fetch[r].chatMembersData) :
       chatList' = SortedChats(fetch[r].chatMembersData,
                               fetch[r].latestMessages, other)
  /\ fetch' = [fetch EXCEPT ![r].pc = "done", ![r].latestMessages = << >>]
  /\ loading' = FALSE
  /\ UNCHANGED <<serverVars, tableVars, streamVars>>

\* A change notification of the channel 'chats' arrives: fetchChats().
ChatsNotification(r) ==
  /\ notifications.useChats > 0
  /\ fetch[r].pc \in {"idle", "done", "failed"}
  /\ notifications' = [notifications EXCEPT !.useChats = @ - 1]
  /\ fetch' = [fetch EXCEPT ![r] = [FetchInit EXCEPT !.pc = "members"]]
  /\ UNCHANGED <<chatList, loading, serverVars, tableVars>>
  /\ UNCHANGED <<message_reactions, objects, chatId, messageList,
                 messagesLoading, fetching, call, groupVars, hookVars>>

----------------------------------------------------------------------------
(* client/src/hooks/useMessages.ts: the message stream handler *)

NoChatId == 0                 \* chatId null: no chat is selected
Calls == {"c1", "c2"}         \* the sendMessage, reactToMessage and uploadFile
                              \* calls of a run, each made once
Whitespace == {" "}
Chars == {" ", "a"}           \* the characters of a typed text
Texts == UNION {[1..n -> Chars] : n \in 0..MaxTextLen}
Emojis == {"thumbsup", "heart"}   \* two of the quickReactions of ChatArea

\* File objects of the file input: the name as its segments between dots, the
\* MIME type as its parts ("" for a type the browser does not know).
Files ==
  {[name |-> <<"pic", "png">>, type |-> <<"image", "/", "png">>, size |-> 3],
   [name |-> <<"notes", "txt">>, type |-> <<"text", "/", "plain">>, size |-> 1],
   [name |-> <<"image">>, type |-> << >>, size |-> 2]}

\* The characters of a text as one string.
RECURSIVE Str(_)
Str(chars) == IF chars = << >> THEN "" ELSE Head(chars) \o Str(Tail(chars))

\* String.prototype.trim: the text without its leading and trailing whitespace.
RECURSIVE trimStart(_)
trimStart(content) ==
  IF content # << >> /\ Head(content) \in Whitespace
    THEN trimStart(Tail(content)) ELSE content

RECURSIVE trimEnd(_)
trimEnd(content) ==
  IF content # << >> /\ content[Len(content)] \in Whitespace
    THEN trimEnd(SubSeq(content, 1, Len(content) - 1)) ELSE content

trim(content) == trimEnd(trimStart(content))

\* String.prototype.startsWith, on the parts of a string.
startsWith(parts, prefix) ==
  /\ Len(parts) >= Len(prefix)
  /\ SubSeq(parts, 1, Len(prefix)) = prefix

\* file.name: the segments joined with dots.
RECURSIVE FileName(_)
FileName(segments) ==
  IF Len(segments) = 1 THEN segments[1]
  ELSE segments[1] \o "." \o FileName(Tail(segments))

\* file.name.split('.').pop()
fileExt(file) == file.name[Len(file.name)]

\* `${user.id}/${Date.now()}.${fileExt}`
filePath(file) ==
  CurrentUser \o "/" \o ToString(getTime(now)) \o "." \o fileExt(file)

\* supabase.storage.from('chat-files').getPublicUrl(filePath).data.publicUrl
getPublicUrl(path) == "/storage/v1/object/public/chat-files/" \o path

\* The kind given to every upload.
messageType_AlwaysImage(file) == "image"

\* The kind of an uploaded file's message.
messageType(file) ==
  IF startsWith(file.type, <<"image", "/">>) THEN "image" ELSE "file"

\* Row-level security of chat_members-guarded tables: the user is a member.
IsMember(chat_id, user_id) ==
  \E i \in DOMAIN chat_members :
    chat_members[i] = [chat_id |-> chat_id, user_id |-> user_id]

\* The row the database stores for an insert into messages: a fresh id and
\* created_at DEFAULT NOW().
NewMessage(chat_id, sender_id, content, message_type, file_url) ==
  [id |-> Cardinality(messages) + 1, chat_id |-> chat_id,
   sender_id |-> sender_id, content |-> content,
   message_type |-> message_type, file_url |-> file_url,
   created_at |-> now]

\* "Users can send messages to their chats": WITH CHECK of the insert.
MessageInsertAllowed(row) ==
  row.sender_id = CurrentUser /\ IsMember(row.chat_id, CurrentUser)

\* The channels of useMessages that are subscribed with the chat as filter.
Subscribed(chat_id) ==
  {i \in DOMAIN channels :
     channels[i].subscribed /\ channels[i].filter = chat_id}

\* The notifications when the channel of useMessages gets none.
Notified_ChatsOnly(row) ==
  [useChats |-> notifications.useChats + 1,
   useMessages |-> notifications.useMessages]

\* The change notifications an inserted message raises: one on the channel of
\* useChats, one for useMessages when a channel is subscribed with the
\* filter chat_id=eq.<the chat of the row>.
Notified(row) ==
  [useChats |-> notifications.useChats + 1,
   useMessages |->
     [k \in ChatIds |->
        notifications.useMessages[k]
          + (IF k = row.chat_id /\ Subscribed(k) # {} THEN 1 ELSE 0)]]

\* The locals of a call of the hook. The last three fields are history, not
\* program state: the reactions stored when reactToMessage was called, the
\* calls that had returned by then, and whether every answer so far was a
\* success.
CallInit ==
  [pc |-> "idle", op |-> "none", chat_id |-> NoChatId, content |-> Undefined,
   message_type |-> Undefined, file_url |-> Undefined, filePath |-> Undefined,
   message_id |-> 0, emoji |-> Undefined, existing |-> 0,
   recipientId |-> Undefined, isGroup |-> FALSE, name |-> Undefined,
   user1_uuid |-> Undefined, user2_uuid |-> Undefined,
   result |-> Undefined, before |-> {}, after |-> {}, ok |-> TRUE]

\* fetchMessages() of the render with chat k is called, n times: nothing
\* without a chat, else setLoading(true) and the query for k is sent.
FetchMessagesOf(k, n) ==
  /\ fetching' = IF k = NoChatId THEN fetching
                 ELSE [fetching EXCEPT ![k] = @ + n]
  /\ messagesLoading' = IF k = NoChatId \/ n = 0 THEN messagesLoading ELSE TRUE

\* fetchMessages() of the current render is called.
FetchMessagesCalled == FetchMessagesOf(chatId, 1)

----------------------------------------------------------------------------
(* useMessages: sendMessage *)

\* The guard that does not trim: only the empty text is refused.
EmptyText_Untrimmed(content) == ~Truthy(Str(content))

\* !content.trim()
EmptyText(content) == ~Truthy(Str(trim(content)))

\* sendMessage(content): returns at once without a chat or a text, else
\* sends the insert of the trimmed text.
SendMessage(c, content) ==
  /\ call[c].pc = "idle"
  /\ IF chatId = NoChatId \/ EmptyText(content)
       THEN call' = [call EXCEPT ![c] =
                       [CallInit EXCEPT !.pc = "done", !.op = "sendMessage"]]
       ELSE call' = [call EXCEPT ![c] =
                       [CallInit EXCEPT !.pc = "insert", !.op = "sendMessage",
                                        !.chat_id = chatId,
                                        !.content = Str(trim(content)),
                                        !.message_type = "text"]]
  /\ UNCHANGED <<messages, message_reactions, objects, notifications>>
  /\ UNCHANGED <<messageList, messagesLoading, fetching, chatId, groupVars, hookVars>>
  /\ UNCHANGED <<serverVars, clientVars, users, chats, chat_members, now>>

\* The insert answers: the row is stored and notified, or the error is
\* logged.
InsertMessage(c, ok) ==
  /\ call[c].pc = "insert"
  /\ LET row == NewMessage(call[c].chat_id, CurrentUser, call[c].content,
                           call[c].message_type, Undefined)
     IN IF ok /\ MessageInsertAllowed(row)
          THEN /\ messages' = messages \cup {row}
               /\ notifications' = Notified(row)
          ELSE UNCHANGED <<messages, notifications>>
  /\ call' = [call EXCEPT ![c].pc = "done"]
  /\ UNCHANGED <<message_reactions, objects>>
  /\ UNCHANGED <<messageList, messagesLoading, fetching, chatId, groupVars, hookVars>>
  /\ UNCHANGED <<serverVars, clientVars, users, chats, chat_members, now>>

----------------------------------------------------------------------------
(* useMessages: the subscription and fetchMessages *)

\* An INSERT notification with filter chat_id=eq.k arrives: the callback of
\* every channel subscribed with that filter calls the fetchMessages() of
\* the render that made the channel.
DeliverNotification(k) ==
  /\ notifications.useMessages[k] > 0
  /\ notifications' = [notifications EXCEPT !.useMessages[k] = @ - 1]
  /\ FetchMessagesOf(k, Cardinality(Subscribed(k)))
  /\ UNCHANGED <<messages, message_reactions, objects, call>>
  /\ UNCHANGED <<messageList, chatId, groupVars, hookVars>>
  /\ UNCHANGED <<serverVars, clientVars, users, chats, chat_members, now>>

\* The sequences that list each element of a set once.
SeqsOf(S) ==
  {s \in [1..Cardinality(S) -> S] : \A i, j \in DOMAIN s : s[i] = s[j] => i = j}

\* The rows of the query in descending order.
MessagesData_Descending(chat_id) ==
  {data \in SeqsOf({msg \in messages : msg.chat_id = chat_id}) :
     \A i, j \in DOMAIN data : i < j => data[i].created_at >= data[j].created_at}

\* The rows of the query: the messages of the chat, created_at ascending.
MessagesData(chat_id) ==
  {data \in SeqsOf({msg \in messages : msg.chat_id = chat_id}) :
     \A i, j \in DOMAIN data : i < j => data[i].created_at <= data[j].created_at}

\* message_reactions(emoji, user_id) of one message, in the order returned.
EmbeddedReactions(message_id) ==
  {[i \in DOMAIN rows |-> [emoji |-> rows[i].emoji, user_id |-> rows[i].user_id]] :
     rows \in SeqsOf({r \in message_reactions : r.message_id = message_id})}

\* `grouped` is a plain object: grouped[name] of a name it does not own is
\* the property of that name of Object.prototype, when there is one.
Inherited == {"constructor"}

\* The property names that are array indices: Object.values lists them
\* first, in ascending order, before the other names.
IndexNames == {"1", "2"}
ArrayIndex(name) == IF name = "1" THEN 1 ELSE 2

\* The emoji column is TEXT NOT NULL: the quick reactions and other texts.
EmojiTexts == Emojis \cup Inherited \cup IndexNames

\* groupReactions threw a TypeError.
Thrown == <<[emoji |-> "TypeError", count |-> 0, users |-> << >>]>>

\* const grouped = {}; reactions.forEach(...); Object.values(grouped): the
\* groups in the order their emoji first appears. For an emoji that names an
\* inherited property, !grouped[emoji] is false, no group is made, and
\* grouped[emoji].users.push throws on the inherited value.
RECURSIVE forEachReaction(_)
forEachReaction(rows) ==
  IF rows = << >> THEN << >>
  ELSE LET grouped == forEachReaction(SubSeq(rows, 1, Len(rows) - 1))
           reaction == rows[Len(rows)]
           at == {i \in DOMAIN grouped : grouped[i].emoji = reaction.emoji}
       IN IF grouped = Thrown THEN Thrown
          ELSE IF at # {}
            THEN [i \in DOMAIN grouped |->
                    IF i \in at
                      THEN [grouped[i] EXCEPT
                              !.count = @ + 1,
                              !.users = Append(@, reaction.user_id)]
                      ELSE grouped[i]]
          ELSE IF reaction.emoji \in Inherited THEN Thrown
          ELSE Append(grouped, [emoji |-> reaction.emoji, count |-> 1,
                                users |-> <<reaction.user_id>>])

\* The values under array indices, in ascending order of the index.
IndexValues(properties) ==
  LET indexed == {properties[i] : i \in {j \in DOMAIN properties :
                                           properties[j].emoji \in IndexNames}}
  IN CHOOSE s \in SeqsOf(indexed) :
       \A i, j \in DOMAIN s :
         i < j => ArrayIndex(s[i].emoji) < ArrayIndex(s[j].emoji)

\* An Object.values that lists every property in the order of creation.
ObjectValues_InCreationOrder(properties) == properties

\* Object.values of an object whose properties were created in the order
\* of `properties`: the array indices first, ascending, then the other
\* names in the order of their creation.
ObjectValues(properties) ==
  IndexValues(properties)
    \o SelectSeq(properties, LAMBDA g : g.emoji \notin IndexNames)

groupReactions(rows) ==
  LET grouped == forEachReaction(rows)
  IN IF grouped = Thrown THEN Thrown ELSE ObjectValues(grouped)

\* msg.sender is null: the sender's row is gone (ON DELETE SET NULL).
SenderMissing(msg) == msg.sender_id \notin DOMAIN users

\* One element of formattedMessages.
FormatMessage(msg, reactionRows) ==
  [id |-> msg.id, chat_id |-> msg.chat_id, sender_id |-> msg.sender_id,
   content |-> msg.content, message_type |-> msg.message_type,
   file_url |-> msg.file_url, created_at |-> msg.created_at,
   sender |-> [id |-> users[msg.sender_id].id,
               fullName |-> users[msg.sender_id].full_name,
               avatarUrl |-> users[msg.sender_id].avatar_url],
   reactions |-> groupReactions(reactionRows)]

\* The lists a successful fetchMessages of the chat may store.
FormattedMessages(chat_id) ==
  UNION {{[i \in DOMAIN data |-> FormatMessage(data[i], embedded[i])] :
            embedded \in {e \in [DOMAIN data ->
                                   UNION {EmbeddedReactions(data[i].id) :
                                            i \in DOMAIN data}] :
                            \A i \in DOMAIN data :
                              e[i] \in EmbeddedReactions(data[i].id)}} :
         data \in MessagesData(chat_id)}

\* The query of a fetchMessages call answers: on an error, or when the map
\* throws on a row without sender, the list is left alone, else setMessages;
\* setLoading(false) in every case.
FetchAnswer(chat_id, ok) ==
  /\ fetching[chat_id] > 0
  /\ fetching' = [fetching EXCEPT ![chat_id] = @ - 1]
  /\ IF ok /\ ~\E msg \in messages : msg.chat_id = chat_id /\ SenderMissing(msg)
       THEN messageList' \in FormattedMessages(chat_id)
       ELSE UNCHANGED messageList
  /\ messagesLoading' = FALSE
  /\ UNCHANGED <<messages, message_reactions, objects, notifications, call>>
  /\ UNCHANGED <<chatId, groupVars, hookVars>>
  /\ UNCHANGED <<serverVars, clientVars, users, chats, chat_members, now>>

\* A cleanup that leaves the channel subscribed.
CleanedUp_StillSubscribed == channels

\* The cleanup of the effect, which exists when the effect ran with a chat:
\* if (subscriptionRef.current) subscriptionRef.current.unsubscribe().
CleanedUp ==
  IF chatId # NoChatId /\ subscriptionRef # 0
    THEN [channels EXCEPT ![subscriptionRef].subscribed = FALSE]
    ELSE channels

\* The notifications still to deliver once the channels are chs: those of a
\* filter that no channel is subscribed with any more are dropped.
Undropped(chs) ==
  [notifications EXCEPT
     !.useMessages =
       [k \in ChatIds |->
          IF \E i \in DOMAIN chs : chs[i].subscribed /\ chs[i].filter = k
            THEN notifications.useMessages[k] ELSE 0]]

\* The component renders with another chatId (null included): the cleanup
\* of the previous effect runs, then the effect: setMessages([]) without a
\* chat, else fetchMessages() and a new channel in subscriptionRef.
SelectChat(k) ==
  /\ mounted
  /\ k # chatId
  /\ k # NoChatId => Len(channels) < MaxChannels
  /\ chatId' = k
  /\ IF k = NoChatId
       THEN /\ channels' = CleanedUp
            /\ messageList' = << >>
            /\ UNCHANGED <<subscriptionRef, fetching, messagesLoading>>
       ELSE /\ channels' = Append(CleanedUp, [filter |-> k, subscribed |-> TRUE])
            /\ subscriptionRef' = Len(channels) + 1
            /\ FetchMessagesOf(k, 1)
            /\ UNCHANGED messageList
  /\ notifications' = Undropped(channels')
  /\ UNCHANGED <<messages, message_reactions, objects, call, mounted, groupVars>>
  /\ UNCHANGED <<serverVars, clientVars, users, chats, chat_members, now>>

\* The component unmounts: the cleanup of the effect runs.
Unmount ==
  /\ mounted
  /\ mounted' = FALSE
  /\ channels' = CleanedUp
  /\ notifications' = Undropped(channels')
  /\ UNCHANGED <<messages, message_reactions, objects, call, groupVars>>
  /\ UNCHANGED <<chatId, messageList, messagesLoading, fetching, subscriptionRef>>
  /\ UNCHANGED <<serverVars, clientVars, users, chats, chat_members, now>>

\* Another member's client inserts a message into chat k.
PeerInsert(k) ==
  /\ Cardinality(messages) < MaxMessages
  /\ IsMember(k, "u2")
  /\ LET row == NewMessage(k, "u2", "hi", "text", Undefined)
     IN /\ messages' = messages \cup {row}
        /\ notifications' = Notified(row)
  /\ UNCHANGED <<message_reactions, objects, call, groupVars, hookVars>>
  /\ UNCHANGED <<chatId, messageList, messagesLoading, fetching>>
  /\ UNCHANGED <<serverVars, clientVars, users, chats, chat_members, now>>

----------------------------------------------------------------------------
(* useMessages: reactToMessage *)

\* The rows of the message and the user, whatever the emoji.
ReactionRows_AnyEmoji(message_id, user_id, emoji) ==
  {r \in message_reactions : r.message_id = message_id /\ r.user_id = user_id}

\* The rows of (message_id, user_id, emoji).
ReactionRows(message_id, user_id, emoji) ==
  {r \in message_reactions :
     r.message_id = message_id /\ r.user_id = user_id /\ r.emoji = emoji}

\* A constraint that lets every row in.
ReactionUnique_Unchecked(message_id, user_id, emoji) == TRUE

\* UNIQUE(message_id, user_id, emoji): no such row is stored yet.
ReactionUnique(message_id, user_id, emoji) ==
  ReactionRows(message_id, user_id, emoji) = {}

\* "Users can add their own reactions": the message is in a chat of the user.
ReactionInsertAllowed(message_id) ==
  \E msg \in messages : msg.id = message_id /\ IsMember(msg.chat_id, CurrentUser)

\* gen_random_uuid(): an id no row has and no call still holds.
NewReactionId ==
  LET used == {r.id : r \in message_reactions}
                \cup {call[c].existing : c \in Calls} \cup {0}
  IN (CHOOSE n \in used : \A m \in used : m <= n) + 1

\* A delete that takes every reaction of the row's message.
DeleteReaction_OfMessage(id) ==
  {r \in message_reactions :
     \A x \in message_reactions : x.id = id => r.message_id # x.message_id}

\* .delete().eq('id', existing.id) under "Users can delete their own
\* reactions": the table without the user's row of that id.
DeleteReaction(id) ==
  {r \in message_reactions : ~(r.id = id /\ r.user_id = CurrentUser)}

\* The reactions stored, without their row ids.
Reacted ==
  {[message_id |-> r.message_id, user_id |-> r.user_id, emoji |-> r.emoji] :
     r \in message_reactions}

\* reactToMessage(messageId, emoji): the select of the user's row is sent.
ReactToMessage(c, messageId, emoji) ==
  /\ call[c].pc = "idle"
  /\ call' = [call EXCEPT ![c] =
                [CallInit EXCEPT
                   !.pc = "select", !.op = "reactToMessage",
                   !.chat_id = chatId,
                   !.message_id = messageId, !.emoji = emoji,
                   !.before = Reacted,
                   !.after = {d \in Calls : call[d].pc = "done"}]]
  /\ UNCHANGED <<messages, message_reactions, objects, notifications>>
  /\ UNCHANGED <<messageList, messagesLoading, fetching, chatId, groupVars, hookVars>>
  /\ UNCHANGED <<serverVars, clientVars, users, chats, chat_members, now>>

\* .single() answers: `existing` is the one row found, or null when there is
\* none, more than one, or the query failed. The delete or the insert is
\* sent.
SelectReaction(c, ok) ==
  /\ call[c].pc = "select"
  /\ LET found == ReactionRows(call[c].message_id, CurrentUser, call[c].emoji)
     IN IF ok /\ Cardinality(found) = 1
          THEN call' = [call EXCEPT
                          ![c].pc = "delete",
                          ![c].existing = (CHOOSE r \in found : TRUE).id]
          ELSE call' = [call EXCEPT ![c].pc = "insertReaction",
                                    ![c].ok = @ /\ ok]
  /\ UNCHANGED <<messages, message_reactions, objects, notifications>>
  /\ UNCHANGED <<messageList, messagesLoading, fetching, chatId, groupVars, hookVars>>
  /\ UNCHANGED <<serverVars, clientVars, users, chats, chat_members, now>>

\* The delete or the insert answers (its error is not read), then
\* fetchMessages() is called.
WriteReaction(c, ok) ==
  /\ call[c].pc \in {"delete", "insertReaction"}
  /\ IF ~ok THEN UNCHANGED message_reactions
     ELSE IF call[c].pc = "delete"
       THEN message_reactions' = DeleteReaction(call[c].existing)
     ELSE IF /\ ReactionUnique(call[c].message_id, CurrentUser, call[c].emoji)
             /\ ReactionInsertAllowed(call[c].message_id)
       THEN message_reactions' =
              message_reactions \cup
                {[id |-> NewReactionId, message_id |-> call[c].message_id,
                  user_id |-> CurrentUser, emoji |-> call[c].emoji]}
     ELSE UNCHANGED message_reactions
  /\ FetchMessagesOf(call[c].chat_id, 1)
  /\ call' = [call EXCEPT ![c].pc = "done", ![c].ok = @ /\ ok]
  /\ UNCHANGED <<messages, objects, notifications>>
  /\ UNCHANGED <<messageList, chatId, groupVars, hookVars>>
  /\ UNCHANGED <<serverVars, clientVars, users, chats, chat_members, now>>

\* The client of the other member toggles a reaction on: its insert into
\* message_reactions is stored. No channel of useMessages or useChats
\* listens to that table, so no notification is raised.
PeerReact(messageId, emoji) ==
  /\ Cardinality(message_reactions) < MaxReactions
  /\ ReactionRows(messageId, "u2", emoji) = {}
  /\ \E msg \in messages : msg.id = messageId /\ IsMember(msg.chat_id, "u2")
  /\ message_reactions' =
       message_reactions \cup
         {[id |-> NewReactionId, message_id |-> messageId,
           user_id |-> "u2", emoji |-> emoji]}
  /\ UNCHANGED <<messages, objects, notifications, call, groupVars, hookVars>>
  /\ UNCHANGED <<chatId, messageList, messagesLoading, fetching>>
  /\ UNCHANGED <<serverVars, clientVars, users, chats, chat_members, now>>

----------------------------------------------------------------------------
(* client/src/hooks/useChats.tsx: createChat *)

\* Memberships for every user of the table.
Members_Everyone(chat_id, recipientId) ==
  CHOOSE rows \in SeqsOf({[chat_id |-> chat_id, user_id |-> u] :
                            u \in DOMAIN users}) : TRUE

\* const members = [...]: the user and the recipient.
Members(chat_id, recipientId) ==
  <<[chat_id |-> chat_id, user_id |-> CurrentUser],
    [chat_id |-> chat_id, user_id |-> recipientId]>>

\* createChat(recipientId, isGroup, name): the insert into chats is sent.
CreateChat(c, recipientId, isGroup, name) ==
  /\ call[c].pc = "idle"
  /\ call' = [call EXCEPT ![c] =
                [CallInit EXCEPT !.pc = "chatInsert", !.op = "createChat",
                                 !.recipientId = recipientId,
                                 !.isGroup = isGroup, !.name = name]]
  /\ UNCHANGED <<messages, message_reactions, objects, notifications>>
  /\ UNCHANGED <<messageList, messagesLoading, fetching, chatId, groupVars, hookVars>>
  /\ UNCHANGED <<serverVars, clientVars, users, chats, chat_members, now>>

\* The insert into chats answers: on an error the catch returns null, else
\* the insert of the two memberships is sent.
CreateChatInsert(c, ok) ==
  /\ call[c].pc = "chatInsert"
  /\ IF ok
       THEN /\ Len(chats) < MaxChats
            /\ chats' = Append(chats,
                  [id |-> Len(chats) + 1, name |-> call[c].name,
                   is_group |-> call[c].isGroup, avatar_url |-> Undefined,
                   created_by |-> CurrentUser, created_at |-> now])
            /\ call' = [call EXCEPT ![c].pc = "membersInsert",
                                    ![c].chat_id = Len(chats) + 1]
       ELSE /\ call' = [call EXCEPT ![c].pc = "done", ![c].result = "null"]
            /\ UNCHANGED chats
  /\ UNCHANGED <<messages, message_reactions, objects, notifications>>
  /\ UNCHANGED <<messageList, messagesLoading, fetching, chatId, groupVars, hookVars>>
  /\ UNCHANGED <<serverVars, clientVars, users, chat_members, now>>

\* The insert into chat_members answers (both rows or none): on an error
\* the catch returns null and the chat row stays, else fetchChats() is
\* called and the chat id returned.
CreateMembersInsert(c, ok) ==
  /\ call[c].pc = "membersInsert"
  /\ LET members == Members(call[c].chat_id, call[c].recipientId)
         r == IF fetch["r1"].pc \in {"idle", "done", "failed"}
                THEN "r1" ELSE "r2"
     IN IF /\ ok
           /\ MembersUnique(chat_members \o members)
           /\ \A i \in DOMAIN members : members[i].user_id \in DOMAIN users
          THEN /\ chat_members' = chat_members \o members
               /\ fetch' = [fetch EXCEPT ![r] = [FetchInit EXCEPT !.pc = "members"]]
               /\ call' = [call EXCEPT ![c].pc = "done",
                                       ![c].result = ToString(call[c].chat_id)]
          ELSE /\ call' = [call EXCEPT ![c].pc = "done", ![c].result = "null"]
               /\ UNCHANGED <<chat_members, fetch>>
  /\ UNCHANGED <<messages, message_reactions, objects, notifications>>
  /\ UNCHANGED <<messageList, messagesLoading, fetching, chatId, groupVars, hookVars>>
  /\ UNCHANGED <<serverVars, chatList, loading, users, chats, now>>

----------------------------------------------------------------------------
(* supabase-schema.sql: create_dm_chat *)

\* The non-group chats whose memberships are two rows, one of each user.
DmChats(user1_uuid, user2_uuid) ==
  {i \in DOMAIN chats :
     /\ ~chats[i].is_group
     /\ \E j \in DOMAIN chat_members :
          chat_members[j] = [chat_id |-> chats[i].id, user_id |-> user1_uuid]
     /\ \E j \in DOMAIN chat_members :
          chat_members[j] = [chat_id |-> chats[i].id, user_id |-> user2_uuid]
     /\ Cardinality({j \in DOMAIN chat_members :
                       chat_members[j].chat_id = chats[i].id}) = 2}

\* The function is called and its SELECT ... INTO existing_chat_uuid runs on
\* the rows committed so far: a chat found is returned, else the function
\* goes on to its inserts.
DmSelect(c, user1_uuid, user2_uuid) ==
  /\ call[c].pc = "idle"
  /\ LET start == [CallInit EXCEPT !.op = "create_dm_chat",
                                   !.user1_uuid = user1_uuid,
                                   !.user2_uuid = user2_uuid]
         found == DmChats(user1_uuid, user2_uuid)
     IN IF found # {}
          THEN \E i \in found :
                 call' = [call EXCEPT ![c] =
                            [start EXCEPT !.pc = "done",
                                          !.existing = chats[i].id,
                                          !.result = ToString(chats[i].id)]]
          ELSE call' = [call EXCEPT ![c] = [start EXCEPT !.pc = "dmInsert"]]
  /\ UNCHANGED <<messages, message_reactions, objects, notifications>>
  /\ UNCHANGED <<messageList, messagesLoading, fetching, chatId, groupVars, hookVars>>
  /\ UNCHANGED <<serverVars, clientVars, users, chats, chat_members, now>>

\* The two INSERTs run and the transaction commits: the chat and its two
\* memberships, or nothing when the memberships violate
\* UNIQUE(chat_id, user_id) and the function raises.
DmInsert(c) ==
  /\ call[c].pc = "dmInsert"
  /\ LET chat_uuid == Len(chats) + 1
         rows == <<[chat_id |-> chat_uuid, user_id |-> call[c].user1_uuid],
                   [chat_id |-> chat_uuid, user_id |-> call[c].user2_uuid]>>
     IN IF MembersUnique(chat_members \o rows)
          THEN /\ Len(chats) < MaxChats
               /\ chats' = Append(chats,
                     [id |-> chat_uuid, name |-> Undefined, is_group |-> FALSE,
                      avatar_url |-> Undefined,
                      created_by |-> call[c].user1_uuid, created_at |-> now])
               /\ chat_members' = chat_members \o rows
               /\ call' = [call EXCEPT ![c].pc = "done",
                                       ![c].chat_id = chat_uuid,
                                       ![c].result = ToString(chat_uuid)]
          ELSE /\ call' = [call EXCEPT ![c].pc = "done", ![c].result = "error"]
               /\ UNCHANGED <<chats, chat_members>>
  /\ UNCHANGED <<messages, message_reactions, objects, notifications>>
  /\ UNCHANGED <<messageList, messagesLoading, fetching, chatId, groupVars, hookVars>>
  /\ UNCHANGED <<serverVars, clientVars, users, now>>

----------------------------------------------------------------------------
(* useMessages: uploadFile *)

\* handleFileSelect calls uploadFile(file, chatId) when a chat is selected:
\* the upload to the bucket is sent.
UploadFile(c, file) ==
  /\ call[c].pc = "idle"
  /\ chatId # NoChatId
  /\ call' = [call EXCEPT ![c] =
                [CallInit EXCEPT !.pc = "upload", !.op = "uploadFile",
                                 !.chat_id = chatId,
                                 !.content = "Shared " \o FileName(file.name),
                                 !.message_type = messageType(file),
                                 !.filePath = filePath(file)]]
  /\ UNCHANGED <<messages, message_reactions, objects, notifications>>
  /\ UNCHANGED <<messageList, messagesLoading, fetching, chatId, groupVars, hookVars>>
  /\ UNCHANGED <<serverVars, clientVars, users, chats, chat_members, now>>

\* The upload answers: an error (also for a path already taken) is thrown to
\* the catch, which returns null; else the public URL is taken and the
\* insert of the message is sent.
UploadAnswer(c, ok) ==
  /\ call[c].pc = "upload"
  /\ IF ok /\ call[c].filePath \notin objects
       THEN /\ objects' = objects \cup {call[c].filePath}
            /\ call' = [call EXCEPT
                          ![c].pc = "insertFile",
                          ![c].file_url = getPublicUrl(call[c].filePath)]
       ELSE /\ UNCHANGED objects
            /\ call' = [call EXCEPT ![c].pc = "done", ![c].result = "null"]
  /\ UNCHANGED <<messages, message_reactions, notifications>>
  /\ UNCHANGED <<messageList, messagesLoading, fetching, chatId, groupVars, hookVars>>
  /\ UNCHANGED <<serverVars, clientVars, users, chats, chat_members, now>>

\* The insert of the file message answers (its error is not read); the
\* public URL is returned.
InsertFileMessage(c, ok) ==
  /\ call[c].pc = "insertFile"
  /\ LET row == NewMessage(call[c].chat_id, CurrentUser, call[c].content,
                           call[c].message_type, call[c].file_url)
     IN IF ok /\ MessageInsertAllowed(row)
          THEN /\ messages' = messages \cup {row}
               /\ notifications' = Notified(row)
          ELSE UNCHANGED <<messages, notifications>>
  /\ call' = [call EXCEPT ![c].pc = "done", ![c].result = call[c].file_url]
  /\ UNCHANGED <<message_reactions, objects>>
  /\ UNCHANGED <<messageList, messagesLoading, fetching, chatId, groupVars, hookVars>>
  /\ UNCHANGED <<serverVars, clientVars, users, chats, chat_members, now>>

----------------------------------------------------------------------------

UsersTable ==
  [u \in Users |-> [id |-> u,
                    full_name |-> IF u = "u1" THEN "Ann" ELSE "Bob",
                    avatar_url |-> Undefined]]

HandlerInit ==
  [h \in Handlers |->
     [pc |-> "idle", requestId |-> 0, status |-> Undefined,
      updatedRequest |-> NoRow, chatData |-> NoChat,
      chatOk |-> FALSE, membersOk |-> FALSE, res |-> NoResponse]]

\* The server once registerRoutes has run, and the hook once mounted: empty
\* stores, no call in flight.
\* new MemStorage(): no user yet, and no sync answered.
SyncInit ==
  /\ storageUsers = << >>
  /\ syncRes = NoResponse

ServerInit ==
  /\ friendRequests = << >>
  /\ handler = HandlerInit
  /\ postRes = NoResponse
  /\ SyncInit

ClientInit ==
  /\ fetch = [r \in Refreshes |-> FetchInit]
  /\ chatList = << >>
  /\ loading = TRUE

\* groupReactions has not been called.
NotGrouped == <<[emoji |-> "?", count |-> 0, users |-> << >>]>>

GroupIdle ==
  /\ reactions = << >>
  /\ groups = NotGrouped

\* No sendMessage, reactToMessage or uploadFile call made, nothing to deliver.
CallsInit ==
  /\ objects = {}
  /\ notifications = [useChats |-> 0, useMessages |-> [k \in ChatIds |-> 0]]
  /\ call = [c \in Calls |-> CallInit]

\* useMessages(null): no chat selected, and none of its calls made.
StreamInit ==
  /\ message_reactions = {}
  /\ chatId = NoChatId
  /\ messageList = << >>
  /\ messagesLoading = FALSE
  /\ fetching = [k \in ChatIds |-> 0]
  /\ channels = << >>
  /\ subscriptionRef = 0
  /\ mounted = TRUE
  /\ CallsInit
  /\ GroupIdle

Init ==
  /\ ServerInit
  /\ ClientInit
  /\ StreamInit
  /\ users = UsersTable
  /\ chats = << >>
  /\ chat_members = << >>
  /\ messages = {}
  /\ now = 0

Next ==
  \/ \E s \in IdInputs, r \in IdInputs, st \in BodyStatusInputs :
       PostFriendRequest(s, r, st)
  \/ \E h \in Handlers, id \in RequestIds, st \in StatusInputs :
       PatchReceive(h, id, st)
  \/ \E h \in Handlers, ok \in BOOLEAN : ChatInsert(h, ok)
  \/ \E h \in Handlers, ok \in BOOLEAN : MembersInsert(h, ok)

Spec == Init /\ [][Next]_vars

\* The bodies of POST /api/users/sync and the arguments of createUser.
SyncIds == {Undefined, "", "u1", "u2"}
Emails == {Undefined, "a@x.io", "b@x.io"}
FullNames == {Undefined, "", "Ann", "Bob"}
AvatarUrls == {Undefined, "pic.png"}

\* Users sign in against an empty MemStorage.
SyncNext ==
  \E id \in SyncIds, email \in Emails, fullName \in FullNames,
     avatarUrl \in AvatarUrls : SyncUser(id, email, fullName, avatarUrl)

SyncSpec == Init /\ [][SyncNext]_vars

\* Users sign in and are created against an empty MemStorage.
UsersNext ==
  \/ SyncNext
  \/ \E email \in Emails \ {Undefined}, fullName \in {"Ann", "Bob"},
        avatarUrl \in AvatarUrls : CreateUser(email, fullName, avatarUrl)

UsersSpec == Init /\ [][UsersNext]_vars

\* Three users, two pending friend requests between u1 and u2, no chat yet.
DirectInit ==
  /\ handler = HandlerInit
  /\ postRes = NoResponse
  /\ SyncInit
  /\ friendRequests =
       <<[id |-> 1, senderId |-> "u1", receiverId |-> "u2", status |-> "pending"],
         [id |-> 2, senderId |-> "u2", receiverId |-> "u1", status |-> "pending"]>>
  /\ ClientInit
  /\ StreamInit
  /\ users = [u \in Users \cup {"u3"} |->
                [id |-> u, full_name |-> "Ann", avatar_url |-> Undefined]]
  /\ chats = << >>
  /\ chat_members = << >>
  /\ messages = {}
  /\ now = 0

\* Friend requests are accepted or rejected while the client creates chats.
DirectNext ==
  \/ \E h \in Handlers, id \in 1..2, st \in {"accepted", "rejected"} :
       PatchReceive(h, id, st)
  \/ \E h \in Handlers, ok \in BOOLEAN : ChatInsert(h, ok)
  \/ \E h \in Handlers, ok \in BOOLEAN : MembersInsert(h, ok)
  \/ \E c \in Calls, recipientId \in Users \cup {"u3"}, isGroup \in BOOLEAN :
       CreateChat(c, recipientId, isGroup, IF isGroup THEN "Team" ELSE Undefined)
  \/ \E c \in Calls, ok \in BOOLEAN : CreateChatInsert(c, ok)
  \/ \E c \in Calls, ok \in BOOLEAN : CreateMembersInsert(c, ok)

DirectSpec == DirectInit /\ [][DirectNext]_vars

\* Three users; no chat, or a group of u1 and u2, or a direct chat of u1
\* and u3.
DmInit ==
  /\ ServerInit
  /\ ClientInit
  /\ StreamInit
  /\ users = [u \in Users \cup {"u3"} |->
                [id |-> u, full_name |-> "Ann", avatar_url |-> Undefined]]
  /\ messages = {}
  /\ now = 0
  /\ \/ chats = << >> /\ chat_members = << >>
     \/ \E g \in BOOLEAN, other \in {"u2", "u3"} :
          /\ chats = <<[id |-> 1, name |-> Undefined, is_group |-> g,
                        avatar_url |-> Undefined, created_by |-> "u1",
                        created_at |-> 0]>>
          /\ chat_members = <<[chat_id |-> 1, user_id |-> "u1"],
                              [chat_id |-> 1, user_id |-> other]>>

\* create_dm_chat is called twice, in sequence or concurrently.
DmNext ==
  \/ \E c \in Calls, a \in Users \cup {"u3"}, b \in Users \cup {"u3"} :
       DmSelect(c, a, b)
  \/ \E c \in Calls : DmInsert(c)

DmSpec == DmInit /\ [][DmNext]_vars

\* The rows of chat_members for the given member sets, chat by chat.
RECURSIVE MemberRows(_, _)
MemberRows(members, n) ==
  IF n = 0 THEN << >>
  ELSE MemberRows(members, n - 1)
         \o (IF "u1" \in members[n] THEN <<[chat_id |-> n, user_id |-> "u1"]>> ELSE << >>)
         \o (IF "u2" \in members[n] THEN <<[chat_id |-> n, user_id |-> "u2"]>> ELSE << >>)

\* The tables as any sequence of chat creations and message inserts may have
\* left them: every chat has a name or none, is a group or not, and has some
\* members; a message is no older than its chat.
TablesInit ==
  /\ users = UsersTable
  /\ now = MaxTime
  /\ \E n \in {0} \cup ChatIds :
       /\ \E attrs \in [1..n -> [name : Names, is_group : BOOLEAN,
                                 created_at : Times]] :
            chats = [i \in 1..n |->
                       [id |-> i, name |-> attrs[i].name,
                        is_group |-> attrs[i].is_group,
                        avatar_url |-> Undefined,
                        created_by |-> "u1",
                        created_at |-> attrs[i].created_at]]
       /\ \E members \in [1..n -> (SUBSET Users) \ {{}}] :
            chat_members = MemberRows(members, n)
       /\ \E rows \in SUBSET ((1..n) \X Times) :
            /\ Cardinality(rows) <= MaxMessages
            /\ \A r \in rows : r[2] >= chats[r[1]].created_at
            /\ messages = {[chat_id |-> r[1], content |-> "hi",
                            created_at |-> r[2]] : r \in rows}

ChatListInit ==
  /\ ServerInit
  /\ ClientInit
  /\ StreamInit
  /\ TablesInit

\* One fetchChats call at a time, each started when the one before has ended.
ChatListNext ==
  \/ FetchChats("r1")
  \/ \E ok \in BOOLEAN : MembersQuery("r1", ok)
  \/ \E ok \in BOOLEAN : MessagesQuery("r1", ok)
  \/ FormatChats("r1")

ChatListSpec == ChatListInit /\ [][ChatListNext]_vars

----------------------------------------------------------------------------
(* The message stream handler over the hosted tables *)

\* A direct chat of u1 and u2, and a group that u1 is no member of.
StreamChats ==
  /\ users = UsersTable
  /\ now = MaxTime
  /\ chats = <<[id |-> 1, name |-> Undefined, is_group |-> FALSE,
                avatar_url |-> Undefined, created_by |-> "u2", created_at |-> 0],
               [id |-> 2, name |-> "Team", is_group |-> TRUE,
                avatar_url |-> Undefined, created_by |-> "u2", created_at |-> 0]>>
  /\ chat_members = <<[chat_id |-> 1, user_id |-> "u1"],
                      [chat_id |-> 1, user_id |-> "u2"],
                      [chat_id |-> 2, user_id |-> "u2"]>>

\* A direct chat of u1 and u2, and a group of the two.
SwitchChats ==
  /\ users = UsersTable
  /\ now = MaxTime
  /\ chats = <<[id |-> 1, name |-> Undefined, is_group |-> FALSE,
                avatar_url |-> Undefined, created_by |-> "u2", created_at |-> 0],
               [id |-> 2, name |-> "Team", is_group |-> TRUE,
                avatar_url |-> Undefined, created_by |-> "u2", created_at |-> 0]>>
  /\ chat_members = <<[chat_id |-> 1, user_id |-> "u1"],
                      [chat_id |-> 1, user_id |-> "u2"],
                      [chat_id |-> 2, user_id |-> "u1"],
                      [chat_id |-> 2, user_id |-> "u2"]>>

\* The hook once mounted with chat k: the effect has called fetchMessages()
\* and subscribed a channel with filter k.
Mounted(k) ==
  /\ chatId = k
  /\ messageList = << >>
  /\ messagesLoading = (k # NoChatId)
  /\ fetching = [j \in ChatIds |-> IF j = k THEN 1 ELSE 0]
  /\ channels = IF k = NoChatId THEN << >>
                ELSE <<[filter |-> k, subscribed |-> TRUE]>>
  /\ subscriptionRef = Len(channels)
  /\ mounted = TRUE

\* A text message as stored.
MessageRow(id, chat_id, sender_id, created_at) ==
  [id |-> id, chat_id |-> chat_id, sender_id |-> sender_id, content |-> "hi",
   message_type |-> "text", file_url |-> Undefined, created_at |-> created_at]

\* A reaction row as stored, its id set by the row.
ReactionRow(message_id, user_id, emoji) ==
  [id |-> 4 * (message_id - 1) + (IF user_id = "u1" THEN 0 ELSE 2)
            + (IF emoji = "thumbsup" THEN 1 ELSE 2),
   message_id |-> message_id, user_id |-> user_id, emoji |-> emoji]

\* Messages sent earlier, at time 0, by u2 or by a user deleted since, and
\* thumbs-up reactions to the first of them.
MessagesInit ==
  /\ ServerInit
  /\ ClientInit
  /\ StreamChats
  /\ CallsInit
  /\ GroupIdle
  /\ \E k \in {NoChatId, 1} : Mounted(k)
  /\ \E n \in 0..MaxMessages :
       /\ \E attrs \in [1..n -> [chat_id : ChatIds,
                                 sender_id : {"u2", Undefined}]] :
            messages = {MessageRow(i, attrs[i].chat_id, attrs[i].sender_id, 0) :
                          i \in 1..n}
       /\ \E us \in {{}, {"u2"}, Users} :
            /\ n = 0 => us = {}
            /\ message_reactions = {ReactionRow(1, u, "thumbsup") : u \in us}

\* The hook mounted without a chat or with chat 1, which has a message.
SwitchInit ==
  /\ ServerInit
  /\ ClientInit
  /\ SwitchChats
  /\ CallsInit
  /\ GroupIdle
  /\ \E k \in {NoChatId, 1} : Mounted(k)
  /\ messages = {MessageRow(1, 1, "u2", 0)}
  /\ message_reactions = {}

\* Chats are selected and deselected and the view is unmounted while the
\* other member sends messages.
SwitchNext ==
  \/ \E k \in ChatIds \cup {NoChatId} : SelectChat(k)
  \/ Unmount
  \/ \E k \in ChatIds : PeerInsert(k)
  \/ \E k \in ChatIds : DeliverNotification(k)
  \/ \E k \in ChatIds, ok \in BOOLEAN : FetchAnswer(k, ok)

SwitchSpec == SwitchInit /\ [][SwitchNext]_vars

\* Texts are sent while the list is fetched.
MessagesNext ==
  \/ \E c \in Calls, content \in Texts : SendMessage(c, content)
  \/ \E c \in Calls, ok \in BOOLEAN : InsertMessage(c, ok)
  \/ \E k \in ChatIds : DeliverNotification(k)
  \/ \E k \in ChatIds, ok \in BOOLEAN : FetchAnswer(k, ok)

MessagesSpec == MessagesInit /\ [][MessagesNext]_vars

\* Files are uploaded while the list is fetched.
UploadNext ==
  \/ \E c \in Calls, file \in Files : UploadFile(c, file)
  \/ \E c \in Calls, ok \in BOOLEAN : UploadAnswer(c, ok)
  \/ \E c \in Calls, ok \in BOOLEAN : InsertFileMessage(c, ok)
  \/ \E k \in ChatIds : DeliverNotification(k)
  \/ \E k \in ChatIds, ok \in BOOLEAN : FetchAnswer(k, ok)

UploadSpec == MessagesInit /\ [][UploadNext]_vars

\* The runs in which every query of fetchMessages is answered without error.
MessagesLiveNext ==
  \/ \E c \in Calls, content \in Texts : SendMessage(c, content)
  \/ \E c \in Calls, ok \in BOOLEAN : InsertMessage(c, ok)
  \/ \E k \in ChatIds : DeliverNotification(k)
  \/ \E k \in ChatIds : FetchAnswer(k, TRUE)

\* Chat 1 is selected and its messages have no reaction yet.
MessagesLiveInit ==
  /\ MessagesInit
  /\ chatId = 1
  /\ message_reactions = {}

\* The realtime channel delivers every notification and every query is
\* answered.
MessagesLiveSpec ==
  /\ MessagesLiveInit
  /\ [][MessagesLiveNext]_vars
  /\ WF_vars(\E k \in ChatIds : DeliverNotification(k))
  /\ WF_vars(\E k \in ChatIds : FetchAnswer(k, TRUE))

\* Chat 1 is selected and has a message without reactions.
PeerInit ==
  /\ ServerInit
  /\ ClientInit
  /\ SwitchChats
  /\ CallsInit
  /\ GroupIdle
  /\ Mounted(1)
  /\ messages = {MessageRow(1, 1, "u2", 0)}
  /\ message_reactions = {}

\* The other member reacts and sends messages while this client shows the
\* chat.
PeerNext ==
  \/ \E emoji \in Emojis : PeerReact(1, emoji)
  \/ \E k \in ChatIds : PeerInsert(k)
  \/ \E k \in ChatIds : DeliverNotification(k)
  \/ \E k \in ChatIds : FetchAnswer(k, TRUE)

\* The realtime channel delivers every notification and every query is
\* answered.
PeerSpec ==
  /\ PeerInit
  /\ [][PeerNext]_vars
  /\ WF_vars(\E k \in ChatIds : DeliverNotification(k))
  /\ WF_vars(\E k \in ChatIds : FetchAnswer(k, TRUE))

\* Chat 1 selected, one message in each chat, and some reactions to the
\* message of chat 1.
ReactionsInit ==
  /\ ServerInit
  /\ ClientInit
  /\ StreamChats
  /\ CallsInit
  /\ GroupIdle
  /\ Mounted(1)
  /\ messages = {MessageRow(1, 1, "u2", 0), MessageRow(2, 2, "u2", 0)}
  /\ \E rows \in SUBSET ({1} \X Users \X Emojis) :
       /\ Cardinality(rows) <= MaxReactions
       /\ message_reactions = {ReactionRow(r[1], r[2], r[3]) : r \in rows}

ReactionsNext ==
  \/ \E c \in Calls, m \in {1, 2}, emoji \in Emojis : ReactToMessage(c, m, emoji)
  \/ \E c \in Calls, ok \in BOOLEAN : SelectReaction(c, ok)
  \/ \E c \in Calls, ok \in BOOLEAN : WriteReaction(c, ok)
  \/ \E k \in ChatIds, ok \in BOOLEAN : FetchAnswer(k, ok)

ReactionsSpec == ReactionsInit /\ [][ReactionsNext]_vars

\* groupReactions called on any rows, also rows that repeat.
GroupInit ==
  /\ ServerInit
  /\ ClientInit
  /\ users = UsersTable
  /\ chats = << >>
  /\ chat_members = << >>
  /\ messages = {}
  /\ now = 0
  /\ message_reactions = {}
  /\ Mounted(NoChatId)
  /\ CallsInit
  /\ reactions \in UNION {[1..n -> [emoji : EmojiTexts, user_id : Users]] :
                            n \in 0..MaxRows}
  /\ groups = NotGrouped

GroupReactions ==
  /\ groups = NotGrouped
  /\ groups' = groupReactions(reactions)
  /\ UNCHANGED <<reactions, message_reactions, objects, chatId, messageList,
                 messagesLoading, fetching, notifications, call, hookVars>>
  /\ UNCHANGED <<serverVars, clientVars, tableVars>>

GroupNext == GroupReactions

GroupSpec == GroupInit /\ [][GroupNext]_vars

\* useChats mounted (its effect has called fetchChats) next to useMessages
\* with chat 1 selected; the chat has at most one message.
ChatSyncInit ==
  /\ ServerInit
  /\ fetch = [r \in Refreshes |->
                IF r = "r1" THEN [FetchInit EXCEPT !.pc = "members"] ELSE FetchInit]
  /\ chatList = << >>
  /\ loading = TRUE
  /\ StreamChats
  /\ CallsInit
  /\ GroupIdle
  /\ Mounted(1)
  /\ message_reactions = {}
  /\ messages \in {{}, {MessageRow(1, 1, "u2", 0)}}

\* Messages are sent while refreshes of the chat list run, two at most at a
\* time.
ChatSyncNext ==
  \/ \E c \in Calls, content \in Texts : SendMessage(c, content)
  \/ \E c \in Calls, ok \in BOOLEAN : InsertMessage(c, ok)
  \/ \E r \in Refreshes : ChatsNotification(r)
  \/ \E r \in Refreshes, ok \in BOOLEAN : MembersQuery(r, ok)
  \/ \E r \in Refreshes, ok \in BOOLEAN : MessagesQuery(r, ok)
  \/ \E r \in Refreshes : FormatChats(r)

ChatSyncSpec == ChatSyncInit /\ [][ChatSyncNext]_vars

----------------------------------------------------------------------------
(* Friend-request workflow: properties *)

Stores == <<friendRequests, chats, chat_members>>

\* The step in which PATCH call h is received and runs up to its first await.
ReceiveStep(h) == handler[h].pc = "idle" /\ handler'[h].pc # "idle"

\* The rows of chat_members that belong to chat c, in insertion order.
MembersOf(c) == SelectSeq(chat_members, LAMBDA m : m.chat_id = c)

\* Call h accepted a request and both inserts of its side effect succeeded.
AcceptedWithChat(h) ==
  /\ handler[h].pc = "done"
  /\ handler[h].status = "accepted"
  /\ handler[h].chatOk
  /\ handler[h].membersOk

C2_AcceptCreatesChat ==
  /\ \A h \in Handlers :
       AcceptedWithChat(h) =>
         LET r == handler[h].res.body
             c == handler[h].chatData.id
         IN /\ handler[h].res.code = 200
            /\ r.id = handler[h].requestId
            /\ r.status = "accepted"
            /\ c \in DOMAIN chats
            /\ chats[c].id = c
            /\ chats[c].is_group = FALSE
            /\ chats[c].created_by = r.senderId
            /\ MembersOf(c) = << [chat_id |-> c, user_id |-> r.senderId],
                                 [chat_id |-> c, user_id |-> r.receiverId] >>
  /\ Len(chats) = Cardinality({h \in Handlers : handler[h].chatOk})

C2_Witness ==
  \E h \in Handlers :
    /\ AcceptedWithChat(h)
    /\ handler[h].res.body.senderId = "u1"
    /\ handler[h].res.body.receiverId = "u2"

\* C3: an accept for a request id the store does not hold answers 404 at once,
\* and leaves the friend requests, the chats and the memberships as they were.
C3_UnknownIdNotFound ==
  [][\A h \in Handlers :
       (/\ ReceiveStep(h)
        /\ ValidStatus(handler'[h].status)
        /\ handler'[h].requestId \notin DOMAIN friendRequests)
         => /\ handler'[h].pc = "done"
            /\ handler'[h].res.code = 404
            /\ UNCHANGED Stores]_vars

C3_Witness ==
  \E h \in Handlers :
    /\ handler[h].pc = "done"
    /\ handler[h].status = "accepted"
    /\ handler[h].requestId \notin DOMAIN friendRequests
    /\ handler[h].res.code = 404
    /\ chats = << >>

\* C4: when the chat insert or the membership insert fails, the step leaves
\* the friend requests untouched (no rollback) and the caller receives 200
\* with the updated request, whose status is accepted.
C4_FailureKeepsStatus ==
  [][\A h \in Handlers :
       (/\ handler[h].pc \in {"chatInsert", "membersInsert"}
        /\ handler'[h].pc = "done"
        /\ ~handler'[h].membersOk)
         => /\ UNCHANGED friendRequests
            /\ handler'[h].res = Response(200, handler[h].updatedRequest)
            /\ handler'[h].res.body.status = "accepted"
            /\ handler'[h].res.body.id = handler[h].requestId]_vars

C4_Witness ==
  \E h \in Handlers :
    /\ handler[h].pc = "done"
    /\ handler[h].status = "accepted"
    /\ handler[h].chatOk
    /\ ~handler[h].membersOk
    /\ handler[h].res.code = 200
    /\ friendRequests[handler[h].requestId].status = "accepted"

\* C5: nothing prevents duplicate chats. A call that has accepted a request
\* always inserts a chat row of its own, also when a direct chat of the same
\* sender exists already, and the membership insert for that chat is never
\* refused for a sender and receiver that differ; so whenever two accepts of
\* the same request have both completed with their chat-creation calls
\* succeeding, two distinct direct chats exist, each with memberships for the
\* request's sender and receiver.
C5_DuplicateChats ==
  /\ \A h \in Handlers :
       handler[h].pc = "chatInsert" =>
         \A i \in DOMAIN chats :
           chats[i].id # NewChat(handler[h].updatedRequest).id
  /\ \A h \in Handlers :
       (/\ handler[h].pc = "membersInsert"
        /\ handler[h].updatedRequest.senderId
             # handler[h].updatedRequest.receiverId)
         => MembersUnique(chat_members
              \o NewMembers(handler[h].chatData, handler[h].updatedRequest))
  /\ \A g, h \in Handlers :
       (/\ g # h
        /\ AcceptedWithChat(g)
        /\ AcceptedWithChat(h)
        /\ handler[g].requestId = handler[h].requestId)
         => LET r == friendRequests[handler[h].requestId]
                DirectFor(c) ==
                  /\ c \in DOMAIN chats
                  /\ chats[c].is_group = FALSE
                  /\ \E i \in DOMAIN chat_members :
                       chat_members[i] = [chat_id |-> c, user_id |-> r.senderId]
                  /\ \E i \in DOMAIN chat_members :
                       chat_members[i] = [chat_id |-> c, user_id |-> r.receiverId]
            IN /\ handler[g].chatData.id # handler[h].chatData.id
               /\ DirectFor(handler[g].chatData.id)
               /\ DirectFor(handler[h].chatData.id)

\* The two calls overlapped: g inserted its chat first and its memberships
\* last.
C5_Witness ==
  \E g, h \in Handlers :
    /\ g # h
    /\ AcceptedWithChat(g)
    /\ AcceptedWithChat(h)
    /\ handler[g].requestId = handler[h].requestId
    /\ handler[g].chatData.id < handler[h].chatData.id
    /\ chat_members[1].chat_id = handler[h].chatData.id
    /\ Len(chats) = 2
    /\ Len(chat_members) = 4

\* C6: create inserts a row if and only if both ids are present: otherwise it answers 400 and the store is unchanged;
\* with both present it appends exactly one row with a fresh id, the given
\* sender and receiver, and status pending whatever status the body carried.
C6_CreateInsertsPending ==
  [][(handler' = handler /\ <<postRes, friendRequests>>' # <<postRes, friendRequests>>) =>
       \A s \in IdInputs, r \in IdInputs, st \in BodyStatusInputs :
         PostFriendRequest(s, r, st) =>
           IF s \in Users /\ r \in Users
             THEN /\ Len(friendRequests') = Len(friendRequests) + 1
                  /\ SubSeq(friendRequests', 1, Len(friendRequests)) = friendRequests
                  /\ LET row == friendRequests'[Len(friendRequests')]
                     IN /\ \A i \in DOMAIN friendRequests :
                             friendRequests[i].id # row.id
                        /\ row.senderId = s
                        /\ row.receiverId = r
                        /\ row.status = "pending"
                        /\ postRes' = Response(200, row)
             ELSE /\ UNCHANGED Stores
                  /\ postRes'.code = 400]_vars

C6_Witness ==
  /\ postRes.code = 400
  /\ \E i \in DOMAIN friendRequests :
       /\ friendRequests[i].status = "pending"
       /\ friendRequests[i].senderId = "u1"
       /\ friendRequests[i].receiverId = "u2"

\* C7: no two friend-request rows have the same (senderId, receiverId) pair.
C7_UniquePairs ==
  \A i, j \in DOMAIN friendRequests :
    (/\ friendRequests[i].senderId = friendRequests[j].senderId
     /\ friendRequests[i].receiverId = friendRequests[j].receiverId)
      => i = j

\* C8: an update whose status is missing or not accepted/rejected answers 400
\* at once; no friend request, chat or membership changes.
C8_InvalidStatusRejected ==
  [][\A h \in Handlers :
       (/\ ReceiveStep(h)
        /\ handler'[h].status \notin {"accepted", "rejected"})
         => /\ handler'[h].pc = "done"
            /\ handler'[h].res.code = 400
            /\ UNCHANGED Stores]_vars

C8_Witness ==
  \E h \in Handlers :
    /\ handler[h].pc = "done"
    /\ handler[h].status = "pending"
    /\ handler[h].requestId \in DOMAIN friendRequests
    /\ handler[h].res.code = 400

----------------------------------------------------------------------------
(* Chat-list synchronizer: properties *)

\* The latest created_at among the messages of chat c, or the chat's own
\* created_at when it has no message.
ActivityTime(c) ==
  LET times == {msg.created_at : msg \in {x \in messages : x.chat_id = c}}
  IN IF times = {} THEN chats[c].created_at
     ELSE CHOOSE t \in times : \A other \in times : other <= t

Millis(t) == t \div TicksPerMs

MembersOfChat(c) ==
  {chat_members[i].user_id :
     i \in {j \in DOMAIN chat_members : chat_members[j].chat_id = c}}

\* A refresh has ended with setChats: one summary per membership of the
\* current user, each with the activity time of its chat.
SummariesOfMemberships ==
  /\ \A c \in DOMAIN chats :
       Cardinality({i \in DOMAIN chatList : chatList[i].id = c})
         = Cardinality({j \in DOMAIN chat_members :
                          chat_members[j] = [chat_id |-> c, user_id |-> CurrentUser]})
  /\ \A i \in DOMAIN chatList :
       /\ chatList[i].id \in DOMAIN chats
       /\ chatList[i].lastMessageTime = ActivityTime(chatList[i].id)

\* C9 as stated: after a successful refresh there is one summary per
\* membership, its time is that of the chat's most recent message or of the
\* chat's creation when it has none, and the list is in descending order of
\* that time.
C9_SortedByActivity ==
  fetch["r1"].pc = "done" =>
    /\ SummariesOfMemberships
    /\ \A i, j \in DOMAIN chatList :
         i < j => chatList[i].lastMessageTime >= chatList[j].lastMessageTime

\* C9 as amended: the same, with the list in descending order of that time
\* taken in whole milliseconds, the resolution at which the sort compares.
C9_SortedByActivityMillis ==
  fetch["r1"].pc = "done" =>
    /\ SummariesOfMemberships
    /\ \A i, j \in DOMAIN chatList :
         i < j => Millis(chatList[i].lastMessageTime)
                    >= Millis(chatList[j].lastMessageTime)

\* The sort has moved a chat with a message ahead of an older chat without
\* one that the membership query returned first.
C9_Witness ==
  /\ fetch["r1"].pc = "done"
  /\ Len(chatList) = 2
  /\ chatList[1].lastMessage = "hi"
  /\ chatList[1].lastMessageTime > chats[chatList[1].id].created_at
  /\ chatList[2].lastMessage = Undefined
  /\ Millis(chatList[1].lastMessageTime) > Millis(chatList[2].lastMessageTime)
  /\ fetch["r1"].chatMembersData[1].id = chatList[2].id

\* C10: after a refresh of u1, a chat with an explicit name shows that name,
\* and a chat that is no group, has no name and has the members u1 and u2
\* shows the full name of u2.
C10_OtherMemberName ==
  fetch["r1"].pc = "done" =>
    \A i \in DOMAIN chatList :
      LET chat == chats[chatList[i].id]
      IN /\ Truthy(chat.name) => chatList[i].name = chat.name
         /\ (/\ ~chat.is_group
             /\ ~Truthy(chat.name)
             /\ MembersOfChat(chat.id) = {"u1", "u2"})
              => chatList[i].name = users["u2"].full_name

\* The lists a refresh in its last step stores when no lookup fails.
ResolvedLists(r) ==
  {SortedChats(fetch[r].chatMembersData, fetch[r].latestMessages, other) :
     other \in {o \in Lookups(fetch[r].chatMembersData) :
                  \A i \in DOMAIN o : o[i] # "<error>"}}

\* C11: a refresh whose membership query or latest-message query fails
\* leaves the chat list as it was, and a refresh that stores a list stores
\* one that no failed other-member lookup went into.
C11_FailedFetchKeepsList ==
  [][\A r \in Refreshes :
       /\ (fetch[r].pc \in {"members", "messages"} /\ fetch'[r].pc = "failed")
            => chatList' = chatList
       /\ (fetch[r].pc = "format" /\ fetch'[r].pc = "done")
            => chatList' \in ResolvedLists(r) \cup {chatList}]_vars

\* The lists a refresh over the tables as they are now may store (a lookup
\* that failed unnoticed included).
CurrentLists ==
  UNION {UNION {{SortedChats(data, lm, other) : other \in Lookups(data)} :
                lm \in LatestMessages({data[i].id : i \in DOMAIN data})} :
         data \in Orderings(MembershipChats(CurrentUser))}

\* Every change notification has started its refresh, and every refresh
\* started has ended with setChats.
RefreshesCompleted ==
  /\ notifications.useChats = 0
  /\ \A r \in Refreshes : fetch[r].pc \in {"idle", "done"}
  /\ \E r \in Refreshes : fetch[r].pc = "done"

\* C12: once every notification has started a refresh and all refreshes
\* have completed, the chat list is the list derived from the tables as they
\* are, whatever the order in which overlapping refreshes completed.
C12_ListFollowsStore == RefreshesCompleted => chatList \in CurrentLists

----------------------------------------------------------------------------
(* Message stream handler: properties *)

\* The text has no character, or whitespace only.
IsBlank(content) == \A i \in DOMAIN content : content[i] \in Whitespace

\* The texts that are `content` without its leading and trailing whitespace.
TrimmedOf(content) ==
  {t \in Texts :
     \E a \in 0..Len(content) :
       /\ a + Len(t) <= Len(content)
       /\ SubSeq(content, a + 1, a + Len(t)) = t
       /\ \A i \in DOMAIN content :
            (i <= a \/ i > a + Len(t)) => content[i] \in Whitespace
       /\ t # << >> => (t[1] \notin Whitespace /\ t[Len(t)] \notin Whitespace)}

\* The steps of a sendMessage call: the call itself, and the answer to its
\* insert.
SendStep(c) == call[c].pc = "idle" /\ call'[c].op = "sendMessage"
InsertStep(c) == call[c].pc = "insert" /\ call'[c].pc = "done"

\* The step stores exactly one new row, the text message of call c.
InsertsRowOf(c) ==
  \E row \in messages' \ messages :
    /\ messages' = messages \cup {row}
    /\ row.chat_id = call[c].chat_id
    /\ row.sender_id = CurrentUser
    /\ row.message_type = "text"
    /\ row.content = call[c].content

\* The call stores nothing itself; it ends at once for a blank text (or
\* without a chat), and else sends the insert of the trimmed text as a text
\* message of the selected chat.
SendsTrimmed(c) ==
  SendStep(c) =>
    /\ messages' = messages
    /\ \A content \in Texts :
         SendMessage(c, content) =>
           IF IsBlank(content) \/ chatId = NoChatId
             THEN call'[c].pc = "done"
             ELSE /\ call'[c].pc = "insert"
                  /\ call'[c].chat_id = chatId
                  /\ call'[c].message_type = "text"
                  /\ \E t \in TrimmedOf(content) :
                       t # << >> /\ call'[c].content = Str(t)

\* C13 as stated: sendMessage stores nothing for a blank text, and for any
\* other text exactly one row is inserted in the chat, with the current
\* user as sender, kind text and the trimmed text as content.
C13_SendInsertsIffNonBlank ==
  [][\A c \in Calls :
       /\ SendsTrimmed(c)
       /\ InsertStep(c) => InsertsRowOf(c)]_vars

\* C13 as amended: the same, with the row inserted when the insert succeeds
\* and the message store unchanged when the insert fails.
C13_SendInsertsWhenStored ==
  [][\A c \in Calls :
       /\ SendsTrimmed(c)
       /\ InsertStep(c) =>
            /\ InsertMessage(c, TRUE) => InsertsRowOf(c)
            /\ InsertMessage(c, FALSE) => messages' = messages]_vars

\* One call has stored the text "a" and another, made with a blank text, has
\* ended without an insert.
C13_Witness ==
  \E c, d \in Calls :
    /\ call[c].op = "sendMessage" /\ call[c].pc = "done" /\ call[c].content = "a"
    /\ \E row \in messages :
         /\ row.chat_id = chatId /\ row.sender_id = CurrentUser
         /\ row.message_type = "text" /\ row.content = "a"
    /\ call[d].op = "sendMessage" /\ call[d].pc = "done"
    /\ call[d].content = Undefined /\ call[d].chat_id = NoChatId
    /\ chatId # NoChatId

\* The ids the rows of messages may have.
MessageIds == 1..(MaxMessages + Cardinality(Calls))

\* Message id is a row that the current user has sent into the selected chat.
SentHere(id) ==
  \E row \in messages :
    row.id = id /\ row.sender_id = CurrentUser /\ row.chat_id = chatId

\* fetchMessages of the selected chat can format every row.
Formattable ==
  \A msg \in messages : msg.chat_id = chatId => ~SenderMissing(msg)

InList(id) == \E i \in DOMAIN messageList : messageList[i].id = id

\* C14: no step of a sendMessage call changes the local message list, and
\* when the channel delivers and the refetch succeeds, a message stored by
\* sendMessage in the selected chat is in the list in the end.
C14_SentMessageShows ==
  /\ [][\A c \in Calls :
          (SendStep(c) \/ InsertStep(c)) => messageList' = messageList]_vars
  /\ \A id \in MessageIds : (SentHere(id) /\ Formattable) ~> InList(id)

\* The list shows a message that the current user has sent after two
\* earlier messages of the chat.
C14_Witness ==
  \E id \in MessageIds :
    /\ SentHere(id)
    /\ InList(id)
    /\ Len(messageList) = 3
    /\ \E c \in Calls : call[c].op = "sendMessage" /\ call[c].content = "aa"

\* summary is the reaction summary of the message: one group per emoji that
\* the message has rows of, counting those rows and naming their users.
SummaryOf(summary, message_id) ==
  /\ \A i, j \in DOMAIN summary : summary[i].emoji = summary[j].emoji => i = j
  /\ \A emoji \in Emojis :
       LET us == {r.user_id : r \in {x \in message_reactions :
                                       x.message_id = message_id /\ x.emoji = emoji}}
       IN IF us = {}
            THEN \A i \in DOMAIN summary : summary[i].emoji # emoji
            ELSE \E i \in DOMAIN summary :
                   /\ summary[i].emoji = emoji
                   /\ summary[i].count = Cardinality(us)
                   /\ {summary[i].users[j] : j \in DOMAIN summary[i].users} = us

\* list is exactly the messages of the chat, in ascending order of
\* created_at, each with the profile of its sender and its reaction summary.
MessagesOf(list, chat_id) ==
  /\ {list[i].id : i \in DOMAIN list}
       = {msg.id : msg \in {m \in messages : m.chat_id = chat_id}}
  /\ \A i, j \in DOMAIN list :
       /\ list[i].id = list[j].id => i = j
       /\ i < j => list[i].created_at <= list[j].created_at
  /\ \A i \in DOMAIN list :
       \E msg \in messages :
         /\ msg.id = list[i].id
         /\ list[i].chat_id = chat_id
         /\ list[i].content = msg.content
         /\ list[i].created_at = msg.created_at
         /\ list[i].sender = [id |-> msg.sender_id,
                              fullName |-> users[msg.sender_id].full_name,
                              avatarUrl |-> users[msg.sender_id].avatar_url]
         /\ SummaryOf(list[i].reactions, msg.id)

\* C15: when the query of fetchMessages succeeds and every row can be
\* formatted, the list becomes exactly the messages of the chat, ascending
\* by created_at, with sender profiles and reaction summaries; when the
\* query fails or a row cannot be formatted, the list stays as it was.
C15_ListMessages ==
  [][\A k \in ChatIds :
       fetching'[k] < fetching[k] =>
         /\ (/\ FetchAnswer(k, TRUE)
             /\ \A msg \in messages : msg.chat_id = k => ~SenderMissing(msg))
              => MessagesOf(messageList', k)
         /\ (\/ FetchAnswer(k, FALSE)
             \/ \E msg \in messages : msg.chat_id = k /\ SenderMissing(msg))
              => messageList' = messageList]_vars

\* The list holds an earlier message with its reaction, then a message sent
\* since, and no fetch is in flight.
C15_Witness ==
  /\ Len(messageList) >= 2
  /\ messageList[1].created_at < messageList[2].created_at
  /\ messageList[1].reactions # << >>
  /\ messageList[1].sender.fullName = "Bob"
  /\ MessagesOf(messageList, chatId)
  /\ \A k \in ChatIds : fetching[k] = 0
  /\ ~messagesLoading

\* The file's MIME type begins with "image/".
IsImage(file) ==
  Len(file.type) >= 2 /\ file.type[1] = "image" /\ file.type[2] = "/"

\* The steps of an uploadFile call: the call, the answer to its upload, and
\* the answer to its insert.
UploadStep(c) == call[c].pc = "idle" /\ call'[c].op = "uploadFile"
UploadAnswerStep(c) == call[c].pc = "upload" /\ call'[c].pc # "upload"
InsertFileStep(c) == call[c].pc = "insertFile" /\ call'[c].pc = "done"

\* C16: uploadFile inserts no message before its upload has succeeded, and
\* after a failed upload it inserts none and returns null; the row it
\* inserts has kind image exactly for a MIME type that starts with "image/"
\* and kind file otherwise, the content "Shared <filename>", and as file
\* reference the public URL of the object that the upload stored.
C16_UploadThenInsert ==
  [][\A c \in Calls :
       /\ UploadStep(c) =>
            /\ messages' = messages /\ objects' = objects
            /\ \A file \in Files :
                 UploadFile(c, file) =>
                   /\ call'[c].content = "Shared " \o FileName(file.name)
                   /\ call'[c].message_type
                        = (IF IsImage(file) THEN "image" ELSE "file")
       /\ UploadAnswerStep(c) =>
            /\ messages' = messages
            /\ IF call[c].filePath \in objects' \ objects
                 THEN call'[c].pc = "insertFile" /\ call'[c].result = Undefined
                 ELSE /\ call'[c].pc = "done" /\ call'[c].result = "null"
                      /\ objects' = objects
       /\ InsertFileStep(c) =>
            /\ call[c].filePath \in objects
            /\ \/ messages' = messages
               \/ \E row \in messages' \ messages :
                    /\ messages' = messages \cup {row}
                    /\ row.chat_id = call[c].chat_id
                    /\ row.sender_id = CurrentUser
                    /\ row.message_type = call[c].message_type
                    /\ row.content = call[c].content
                    /\ row.file_url = getPublicUrl(call[c].filePath)
       /\ messages' # messages => \E d \in Calls : InsertFileStep(d)]_vars

\* One upload has stored an image and inserted its message; another, of a
\* text file, has failed and has inserted nothing.
C16_Witness ==
  \E c, d \in Calls :
    /\ call[c].op = "uploadFile" /\ call[c].pc = "done"
    /\ call[c].result = getPublicUrl(call[c].filePath)
    /\ call[c].filePath \in objects
    /\ \E row \in messages :
         /\ row.message_type = "image"
         /\ row.content = "Shared pic.png"
         /\ row.file_url = call[c].result
    /\ call[d].op = "uploadFile" /\ call[d].pc = "done"
    /\ call[d].result = "null" /\ call[d].content = "Shared notes.txt"
    /\ call[d].message_type = "file"
    /\ \A row \in messages : row.content # "Shared notes.txt"

----------------------------------------------------------------------------
(* Reactions: properties *)

\* The rows of the current user for the message and emoji of call c.
OwnRows(c, rows) ==
  {r \in rows : /\ r.message_id = call[c].message_id
                /\ r.user_id = CurrentUser
                /\ r.emoji = call[c].emoji}

\* The steps of a reactToMessage call: the call, the answer to its select,
\* and the answer to its delete or insert.
ReactStep(c) == call[c].pc = "idle" /\ call'[c].op = "reactToMessage"
SelectStep(c) == call[c].pc = "select" /\ call'[c].pc # "select"
WriteStep(c) ==
  call[c].pc \in {"delete", "insertReaction"} /\ call'[c].pc = "done"

\* The step flips the presence of the call's row.
Toggles(c) ==
  IF OwnRows(c, message_reactions) # {}
    THEN OwnRows(c, message_reactions') = {}
    ELSE Cardinality(OwnRows(c, message_reactions')) = 1

\* Whatever the call does to its own row, it changes no other row, it does
\* not touch the local list, and its last step calls fetchMessages().
TouchesOwnRowOnly(c) ==
  /\ (ReactStep(c) \/ SelectStep(c)) =>
       message_reactions' = message_reactions /\ messageList' = messageList
  /\ WriteStep(c) =>
       /\ message_reactions' \ OwnRows(c, message_reactions')
            = message_reactions \ OwnRows(c, message_reactions)
       /\ messageList' = messageList
       /\ fetching' = [fetching EXCEPT ![chatId] = @ + 1]

\* What the select of call c found is still so: the row it is about to
\* delete is there, or there is still no row where it is about to insert.
SelectStillTrue(c) ==
  IF call[c].pc = "delete"
    THEN \E r \in OwnRows(c, message_reactions) : r.id = call[c].existing
    ELSE OwnRows(c, message_reactions) = {}

\* C17 as stated: the call deletes the user's row for the message and emoji
\* when it exists and inserts it when it does not, changes no other row, and
\* then starts a full refresh without touching the local list.
C17_ToggleReaction ==
  [][\A c \in Calls :
       /\ TouchesOwnRowOnly(c)
       /\ WriteStep(c) => Toggles(c)]_vars

\* C17 as amended: the same, with the row deleted or inserted when the
\* select and the write succeed, the row has not changed between them and
\* the user may react to the message; a failed write changes no row.
C17_ToggleWhenStored ==
  [][\A c \in Calls :
       /\ TouchesOwnRowOnly(c)
       /\ WriteStep(c) =>
            /\ (/\ WriteReaction(c, TRUE)
                /\ SelectStillTrue(c)
                /\ ReactionInsertAllowed(call[c].message_id))
                 => Toggles(c)
            /\ WriteReaction(c, FALSE) => message_reactions' = message_reactions]_vars

\* One call has removed the user's thumbs-up and another has added the
\* user's heart, next to a reaction of u2 that is still there; two refreshes
\* have been started since the mount.
C17_Witness ==
  \E c, d \in Calls :
    /\ call[c].pc = "done" /\ call[c].emoji = "thumbsup" /\ call[c].existing # 0
    /\ OwnRows(c, message_reactions) = {}
    /\ call[d].pc = "done" /\ call[d].emoji = "heart" /\ call[d].existing = 0
    /\ Cardinality(OwnRows(d, message_reactions)) = 1
    /\ \E r \in message_reactions : r.user_id = "u2"
    /\ fetching[1] = 3

\* Call d is a second reactToMessage with the arguments of call c, made
\* after c had returned, c itself made while no other call was running.
InSuccession(c, d) ==
  /\ c # d
  /\ call[c].op = "reactToMessage" /\ call[d].op = "reactToMessage"
  /\ call[c].pc = "done" /\ call[d].pc = "done"
  /\ call[c].message_id = call[d].message_id
  /\ call[c].emoji = call[d].emoji
  /\ call[c].after = {}
  /\ call[d].after = {c}

\* C18 as stated: after two calls in succession with the same arguments the
\* reactions stored are the ones stored before the first call.
C18_TwiceRestores ==
  \A c, d \in Calls : InSuccession(c, d) => Reacted = call[c].before

\* C18 as amended: the same, when every store call of the two calls
\* succeeded.
C18_TwiceRestoresWhenStored ==
  \A c, d \in Calls :
    (InSuccession(c, d) /\ call[c].ok /\ call[d].ok)
      => Reacted = call[c].before

\* Two successful calls in succession for a reaction the user had given,
\* next to a reaction of u2: the row was deleted by the first call and is
\* stored again, under a new id, by the second.
C18_Witness ==
  \E c, d \in Calls :
    /\ InSuccession(c, d) /\ call[c].ok /\ call[d].ok
    /\ call[c].existing # 0 /\ call[d].existing = 0
    /\ Cardinality(call[c].before) = 2
    /\ \E r \in OwnRows(d, message_reactions) : r.id # call[c].existing
    /\ Cardinality(message_reactions) = 2

\* C19: whatever the interleaving of the calls, the store holds at most one
\* row for each (message, user, emoji).
C19_OneRowPerReaction ==
  \A r, s \in message_reactions :
    (r.message_id = s.message_id /\ r.user_id = s.user_id /\ r.emoji = s.emoji)
      => r = s

\* Two concurrent calls for the same reaction of message 1 both found no row
\* and both sent their insert, each answered by the store; one row is stored.
C19_Witness ==
  \E c, d \in Calls :
    /\ c # d
    /\ call[c].op = "reactToMessage" /\ call[d].op = "reactToMessage"
    /\ call[c].pc = "done" /\ call[d].pc = "done"
    /\ call[c].message_id = 1 /\ call[d].message_id = 1
    /\ call[c].emoji = call[d].emoji
    /\ call[c].after = {} /\ call[d].after = {}
    /\ call[c].existing = 0 /\ call[d].existing = 0
    /\ call[c].ok /\ call[d].ok
    /\ OwnRows(c, call[c].before) = {}
    /\ Cardinality(OwnRows(c, message_reactions)) = 1

----------------------------------------------------------------------------
(* groupReactions: properties *)

RECURSIVE SumOfCounts(_)
SumOfCounts(gs) ==
  IF gs = << >> THEN 0 ELSE gs[1].count + SumOfCounts(Tail(gs))

\* The groups gs are a grouping of the rows: no emoji twice, a group for
\* every emoji of the rows, each count the length of the group's user
\* list, and the counts adding up to the number of rows.
GroupingOf(gs, rows) ==
  /\ \A i, j \in DOMAIN gs : gs[i].emoji = gs[j].emoji => i = j
  /\ \A k \in DOMAIN rows : \E i \in DOMAIN gs : gs[i].emoji = rows[k].emoji
  /\ \A i \in DOMAIN gs : gs[i].count = Len(gs[i].users)
  /\ SumOfCounts(gs) = Len(rows)

\* The emoji of the rows are all names that `grouped` does not inherit.
OwnNames(rows) == \A k \in DOMAIN rows : rows[k].emoji \notin Inherited

\* C20: for any reaction list, groupReactions returns groups with pairwise
\* distinct emoji, one for every emoji of the list, each count equal to the
\* length of its user list, and the counts adding up to the list's length.
C20_GroupsOfAnyList ==
  groups # NotGrouped =>
    /\ groups # Thrown
    /\ GroupingOf(groups, reactions)

\* The same for the lists whose emoji name no inherited property.
GroupsOfOwnNames ==
  (groups # NotGrouped /\ OwnNames(reactions)) =>
    /\ groups # Thrown
    /\ GroupingOf(groups, reactions)

\* The place of the first row with the emoji.
FirstAt(rows, emoji) ==
  CHOOSE k \in DOMAIN rows :
    /\ rows[k].emoji = emoji
    /\ \A l \in DOMAIN rows : rows[l].emoji = emoji => k <= l

RECURSIVE UsersOf(_, _)
UsersOf(rows, emoji) ==
  IF rows = << >> THEN << >>
  ELSE IF Head(rows).emoji = emoji
    THEN <<Head(rows).user_id>> \o UsersOf(Tail(rows), emoji)
  ELSE UsersOf(Tail(rows), emoji)

\* The groups come in the order in which their emoji first appear in the
\* rows, and each lists the users of its rows in the order of the rows.
InputOrder(gs, rows) ==
  /\ \A i, j \in DOMAIN gs :
       i < j => FirstAt(rows, gs[i].emoji) < FirstAt(rows, gs[j].emoji)
  /\ \A i \in DOMAIN gs : gs[i].users = UsersOf(rows, gs[i].emoji)

\* The emoji of the rows are names that Object.values keeps in the order
\* of their creation.
NoIndexNames(rows) == \A k \in DOMAIN rows : rows[k].emoji \notin IndexNames

\* The groups of array indices come first, in ascending order; the other
\* groups follow in the order in which their emoji first appear in the
\* rows; each group lists the users of its rows in the order of the rows.
ValuesOrder(gs, rows) ==
  /\ \A i, j \in DOMAIN gs :
       i < j =>
         \/ /\ gs[i].emoji \in IndexNames
            /\ gs[j].emoji \in IndexNames
            /\ ArrayIndex(gs[i].emoji) < ArrayIndex(gs[j].emoji)
         \/ /\ gs[i].emoji \in IndexNames
            /\ gs[j].emoji \notin IndexNames
         \/ /\ gs[i].emoji \notin IndexNames
            /\ gs[j].emoji \notin IndexNames
            /\ FirstAt(rows, gs[i].emoji) < FirstAt(rows, gs[j].emoji)
  /\ \A i \in DOMAIN gs : gs[i].users = UsersOf(rows, gs[i].emoji)

\* C21 as stated: for every input, the groups that groupReactions returns
\* are in the order of the first occurrence of their emoji, each with its
\* user ids in input order.
C21_GroupsInInputOrder ==
  (groups # NotGrouped /\ groups # Thrown) => InputOrder(groups, reactions)

\* C21 as amended: the groups are in the order of the first occurrence of
\* their emoji, except that groups whose emoji text is an array index come
\* first, in ascending order; each group has its user ids in input order;
\* the result is the one value the function has for the input.
C21_GroupsInValuesOrder ==
  (groups # NotGrouped /\ groups # Thrown) =>
    /\ ValuesOrder(groups, reactions)
    /\ NoIndexNames(reactions) => InputOrder(groups, reactions)
    /\ groups = groupReactions(reactions)

\* A heart of u2, then "1" of u1, then a heart of u1: the group of "1"
\* comes first, then the hearts with u2 before u1.
C21_Witness ==
  /\ Len(reactions) = 3
  /\ reactions[1] = [emoji |-> "heart", user_id |-> "u2"]
  /\ reactions[2] = [emoji |-> "1", user_id |-> "u1"]
  /\ reactions[3] = [emoji |-> "heart", user_id |-> "u1"]
  /\ groups = <<[emoji |-> "1", count |-> 1, users |-> <<"u1">>],
                [emoji |-> "heart", count |-> 2, users |-> <<"u2", "u1">>]>>

\* The users who have a row with the emoji.
ReactingUsers(rows, emoji) ==
  {rows[k].user_id : k \in {l \in DOMAIN rows : rows[l].emoji = emoji}}

\* C22: for every input, also one that holds the same (emoji, user) row
\* more than once, each group lists a user id once and its count is the
\* number of distinct users who reacted with its emoji.
C22_GroupsDeduplicated ==
  (groups # NotGrouped /\ groups # Thrown) =>
    \A i \in DOMAIN groups :
      /\ \A p, q \in DOMAIN groups[i].users :
           groups[i].users[p] = groups[i].users[q] => p = q
      /\ groups[i].count = Cardinality(ReactingUsers(reactions, groups[i].emoji))

----------------------------------------------------------------------------
(* useMessages: the subscription: properties *)

\* The channels that are subscribed.
ActiveChannels == {i \in DOMAIN channels : channels[i].subscribed}

\* C23: after any selections, deselections and unmount, at most one channel
\* of the hook is subscribed, its filter is the selected chat, and none is
\* subscribed without a chat or after the unmount; a notification starts
\* fetchMessages only for the chat that is selected.
C23_OneSubscription ==
  /\ [](/\ Cardinality(ActiveChannels) <= 1
        /\ \A i \in ActiveChannels : channels[i].filter = chatId
        /\ (chatId = NoChatId \/ ~mounted) => ActiveChannels = {})
  /\ [][\A k \in ChatIds :
          (notifications'.useMessages[k] < notifications.useMessages[k]
             /\ fetching'[k] > fetching[k])
            => k = chatId]_vars

\* Chat 1 was selected, then chat 2, then chat 1 again: of the three
\* channels only the last is subscribed, and a notification for chat 1
\* waits on it.
C23_Witness ==
  /\ Len(channels) = 3
  /\ chatId = 1
  /\ ActiveChannels = {3}
  /\ channels[2].filter = 2
  /\ notifications.useMessages[1] = 1
  /\ mounted

\* Every message of the list is shown with the reaction summary of the
\* rows stored for it.
ShowsReactions ==
  \A i \in DOMAIN messageList :
    SummaryOf(messageList[i].reactions, messageList[i].id)

\* C24: when another client has toggled a reaction on a message of the
\* selected chat, this client eventually shows the updated summary.
C24_ReactionsRealTime == (~ShowsReactions) ~> ShowsReactions

\* C28: the answer of a fetchMessages call made for a chat that is no longer
\* the selected one does not change the list that is shown.
C28_StaleFetchIgnored ==
  [][\A k \in ChatIds :
       (fetching'[k] < fetching[k] /\ k # chatId /\ mounted)
         => messageList' = messageList]_vars

----------------------------------------------------------------------------
(* Chats and memberships: properties *)

\* The membership rows of chat c.
MembershipsOf(c) == {i \in DOMAIN chat_members : chat_members[i].chat_id = c}

\* C25: every chat that is not a group has at most two membership rows,
\* whatever createChat calls and acceptances have run.
C25_DirectChatTwoMembers ==
  \A i \in DOMAIN chats :
    ~chats[i].is_group => Cardinality(MembershipsOf(chats[i].id)) <= 2

\* An acceptance and a createChat(u3) have each made a direct chat with its
\* two memberships.
C25_Witness ==
  /\ Len(chats) = 2
  /\ ~chats[1].is_group /\ ~chats[2].is_group
  /\ Cardinality(MembershipsOf(1)) = 2
  /\ Cardinality(MembershipsOf(2)) = 2
  /\ \E h \in Handlers : handler[h].pc = "done" /\ handler[h].membersOk
  /\ \E c \in Calls :
       /\ call[c].op = "createChat" /\ call[c].pc = "done"
       /\ call[c].recipientId = "u3" /\ call[c].result # "null"

\* The membership insert of chat c is still to be answered.
MembersPending(c) ==
  \/ \E h \in Handlers :
       handler[h].pc = "membersInsert" /\ handler[h].chatData.id = c
  \/ \E d \in Calls : call[d].pc = "membersInsert" /\ call[d].chat_id = c

\* C26: every chat has at least one membership row once the membership
\* insert that follows its creation has been answered, also when that
\* insert failed.
C26_ChatHasMember ==
  \A i \in DOMAIN chats :
    ~MembersPending(chats[i].id) => MembershipsOf(chats[i].id) # {}

----------------------------------------------------------------------------
(* Users: properties *)

\* C27: no two stored users have the same email.
C27_EmailUnique ==
  \A a, b \in DOMAIN storageUsers :
    storageUsers[a].email = storageUsers[b].email => a = b

\* C29: a sync with id, email or fullName missing answers 400 and stores
\* nothing; with all three present it creates the user only when the id is
\* not stored yet; a sync for a stored id answers with the stored user and
\* leaves the store unchanged, whatever the other fields are.
C29_SyncUser ==
  [][\A id \in SyncIds, email \in Emails, fullName \in FullNames,
        avatarUrl \in AvatarUrls :
       SyncUser(id, email, fullName, avatarUrl) =>
         IF id \in {Undefined, ""} \/ email = Undefined
              \/ fullName \in {Undefined, ""}
           THEN /\ syncRes'.code = 400
                /\ storageUsers' = storageUsers
         ELSE IF id \in DOMAIN storageUsers
           THEN /\ syncRes' = Response(200, storageUsers[id])
                /\ storageUsers' = storageUsers
         ELSE /\ DOMAIN storageUsers' = DOMAIN storageUsers \cup {id}
              /\ \A other \in DOMAIN storageUsers :
                   storageUsers'[other] = storageUsers[other]
              /\ storageUsers'[id].id = id
              /\ storageUsers'[id].email = email
              /\ storageUsers'[id].fullName = fullName
              /\ storageUsers'[id].avatarUrl = avatarUrl
              /\ syncRes' = Response(200, storageUsers'[id])]_vars

\* u1 and u2 are stored, u1 as Ann with a@x.io, u2 with an avatar, and the
\* latest sync was answered 200 with the stored u1.
C29_Witness ==
  /\ "u1" \in DOMAIN storageUsers
  /\ "u2" \in DOMAIN storageUsers
  /\ storageUsers["u1"].email = "a@x.io"
  /\ storageUsers["u1"].fullName = "Ann"
  /\ storageUsers["u2"].avatarUrl = "pic.png"
  /\ syncRes = Response(200, storageUsers["u1"])

\* The non-group chats whose members are exactly the two users.
DirectChatsOf(a, b) ==
  {i \in DOMAIN chats :
     /\ ~chats[i].is_group
     /\ {chat_members[j].user_id : j \in MembershipsOf(chats[i].id)} = {a, b}}

\* C30: after any sequence or interleaving of create_dm_chat calls, at most
\* one direct chat exists between any two users.
C30_OneDirectChat ==
  \A a, b \in DOMAIN users :
    a # b => Cardinality(DirectChatsOf(a, b)) <= 1

====
